---- MODULE Spec2Model ----
(***************************************************************************)
(* Model of the Situation Analysis Engine of clawdbot-skill-situation-     *)
(* monitor: AnalysisModule (monitor registry, alert log, analysis cache,   *)
(* analyze pipeline) as it runs on the JavaScript event loop.  Every async *)
(* method call is a task; a task runs synchronously from one await to the  *)
(* next, and tasks interleave only at their awaits.                        *)
(***************************************************************************)
EXTENDS Integers, Sequences, FiniteSets, TLC

(***************************************************************************)
(* Bounds                                                                  *)
(***************************************************************************)
\* number of ids generateId hands out in one behaviour (monitors + alerts)
MaxIds == 2
\* most findings of one analyzer in a result built from given findings
MaxFindings == 3
\* last value of the wall clock, in seconds
MaxTime == 1
\* length of the alert log where calls are made one after the other
MaxAlerts == 2
\* last value of the wall clock where the news cache ages, in seconds
MaxClock == 600

\* call slots: the async calls that can be in flight at the same time
Tasks == {"t1", "t2"}

(***************************************************************************)
(* Text: a string is a sequence of one-character strings                   *)
(***************************************************************************)
UpperOf == [b |-> "B", c |-> "C", d |-> "D", e |-> "E", h |-> "H", t |-> "T", w |-> "W"]

\* String.prototype.toLowerCase on one character
LowerChar(ch) ==
    IF \E l \in DOMAIN UpperOf : UpperOf[l] = ch
    THEN CHOOSE l \in DOMAIN UpperOf : UpperOf[l] = ch
    ELSE ch

\* String.prototype.toLowerCase
toLowerCase(s) == [i \in 1..Len(s) |-> LowerChar(s[i])]

\* String.prototype.includes: q occurs in s as a contiguous substring
includes(s, q) ==
    \E i \in 0..(Len(s) - Len(q)) : SubSeq(s, i + 1, i + Len(q)) = q

Max(a, b) == IF a >= b THEN a ELSE b

(***************************************************************************)
(* Inputs delivered by the feed and market collaborators                   *)
(***************************************************************************)
\* a news item mentioning bitcoin: "BTC" + " " + "up"
ItemBtc(n) == [id |-> n, title |-> <<"B", "T", "C">>, description |-> <<"u", "p">>]
\* a news item mentioning ethereum: "Eth" + " " + "dip"
ItemEth(n) == [id |-> n, title |-> <<"E", "t", "h">>, description |-> <<"d", "i", "p">>]

\* a batch of n items of which the first k mention bitcoin
Batch(k, n) == [i \in 1..n |-> IF i <= k THEN ItemBtc(i) ELSE ItemEth(i)]

\* the batches NewsModule.getNews can hand to its caller
NewsBatches == {Batch(0, 0), Batch(7, 10)}

\* the quote lists MarketsModule.getMarketOverview can hand to its caller
MarketBatches == {<< >>, <<[symbol |-> "BTC", changePercent |-> 8]>>}

\* the queries a caller passes to addMonitor
Queries == {<<"b", "T", "c">>, <<"h", " ", "D">>}

(***************************************************************************)
(* Monitor and Alert records                                               *)
(***************************************************************************)
\* alertThreshold 0.7 kept as an exact fraction
DefaultAlertThreshold == [num |-> 7, den |-> 10]
DefaultCheckInterval == 3600

\* addMonitor creating the monitor paused: `isActive: false`
NewMonitor_Inactive(id, query, time) ==
    [id |-> id, query |-> query, createdAt |-> time, lastChecked |-> time,
     isActive |-> FALSE, alertThreshold |-> DefaultAlertThreshold,
     checkInterval |-> DefaultCheckInterval, alertCount |-> 0]

\* the monitor literal of addMonitor
NewMonitor(id, query, time) ==
    [id |-> id, query |-> query, createdAt |-> time, lastChecked |-> time,
     isActive |-> TRUE, alertThreshold |-> DefaultAlertThreshold,
     checkInterval |-> DefaultCheckInterval, alertCount |-> 0]

NewAlert(id, monitor, time) ==
    [id |-> id, monitorId |-> monitor.id, query |-> monitor.query,
     severity |-> "medium",
     message |-> <<"Monitor \"", monitor.query, "\" triggered an alert">>,
     timestamp |-> time, acknowledged |-> FALSE]

\* a check that stamps the monitor and leaves its alertCount alone
Raised_NotCounted(monitor, time) == [monitor EXCEPT !.lastChecked = time]

\* the monitor after `monitor.alertCount++; monitor.lastChecked = new Date()`
Raised(monitor, time) ==
    [monitor EXCEPT !.alertCount = monitor.alertCount + 1, !.lastChecked = time]

\* this.alerts.push(alert)
PushAlert(log, alert) == Append(log, alert)

\* a removeMonitor that also drops the alerts of the monitor it removes:
\* `this.alerts = this.alerts.filter(a => a.monitorId !== monitorId)`
AlertsAfterRemove_DropsOwn(log, monitorId) ==
    SelectSeq(log, LAMBDA a : a.monitorId # monitorId)

\* this.alerts after removeMonitor(monitorId): no statement of it touches the log
AlertsAfterRemove(log, monitorId) == log

\* a removal by position: the first monitor goes when the id is registered
FilterMonitors_DropsFirst(list, heap, monitorId) ==
    IF \E i \in 1..Len(list) : heap[list[i]].id = monitorId THEN Tail(list) ELSE list

\* the filter with its test inverted: `m => m.id === monitorId`
FilterMonitors_KeepsMatch(list, heap, monitorId) ==
    SelectSeq(list, LAMBDA m : heap[m].id = monitorId)

\* this.activeMonitors.filter(m => m.id !== monitorId); list holds object
\* references, heap maps a reference to the Monitor object
FilterMonitors(list, heap, monitorId) ==
    SelectSeq(list, LAMBDA m : heap[m].id # monitorId)

\* evaluateMonitor with `matchRatio > monitor.alertThreshold`
evaluateMonitor_StrictlyAbove(monitor, news) ==
    LET query == toLowerCase(monitor.query)
        text(item) == toLowerCase(item.title \o <<" ">> \o item.description)
        matchCount == Cardinality({i \in 1..Len(news) : includes(text(news[i]), query)})
    IN  matchCount * monitor.alertThreshold.den
            > monitor.alertThreshold.num * Max(Len(news), 1)

\* evaluateMonitor with `matchCount >= monitor.alertThreshold`: the count,
\* not the ratio, is set against the fraction
evaluateMonitor_CountForRatio(monitor, news) ==
    LET query == toLowerCase(monitor.query)
        text(item) == toLowerCase(item.title \o <<" ">> \o item.description)
        matchCount == Cardinality({i \in 1..Len(news) : includes(text(news[i]), query)})
    IN  matchCount * monitor.alertThreshold.den >= monitor.alertThreshold.num

\* evaluateMonitor: matchCount / max(news.length, 1) >= monitor.alertThreshold
evaluateMonitor(monitor, news) ==
    LET query == toLowerCase(monitor.query)
        text(item) == toLowerCase(item.title \o <<" ">> \o item.description)
        matchCount == Cardinality({i \in 1..Len(news) : includes(text(news[i]), query)})
    IN  matchCount * monitor.alertThreshold.den
            >= monitor.alertThreshold.num * Max(Len(news), 1)

(***************************************************************************)
(* Analyzers, DecisionEngine (./strategies): pure functions of the batch   *)
(***************************************************************************)
Finding(type, evidence) ==
    [type |-> type, level |-> "medium", confidence |-> 50, evidence |-> evidence]

\* one pattern per distinct headline of the batch
analyzePatterns(news, market) ==
    LET titles == {news[i].title : i \in 1..Len(news)}
        first(ti) == CHOOSE i \in 1..Len(news) :
                        /\ news[i].title = ti
                        /\ \A j \in 1..(i - 1) : news[j].title # ti
        idxs == {first(ti) : ti \in titles}
    IN  SelectSeq([i \in 1..Len(news) |->
                      IF i \in idxs THEN Finding("pattern", {news[i].id})
                      ELSE Finding("none", {})],
                  LAMBDA f : f.type # "none")

\* one trend per quote
analyzeTrends(news, market) ==
    [i \in 1..Len(market) |-> Finding("trend", {market[i].symbol})]

\* one risk when news arrives without any quote to set against it
assessRisks(news, market) ==
    IF Len(news) > 0 /\ Len(market) = 0
    THEN <<Finding("risk", {news[1].id})>> ELSE << >>

\* one momentum opportunity per quote that moved by more than 5 percent
identifyOpportunities(news, market) ==
    SelectSeq([i \in 1..Len(market) |-> Finding("momentum", {market[i].symbol})],
              LAMBDA f : \E i \in 1..Len(market) :
                            market[i].symbol \in f.evidence /\ market[i].changePercent > 5)

\* one decision per finding handed to the fusion step
generateRecommendations(patterns, trends, risks, opportunities) ==
    [i \in 1..Len(patterns \o trends \o risks \o opportunities) |->
        [rationale |-> (patterns \o trends \o risks \o opportunities)[i].type]]

\* one narrative per non-empty batch, with every item on its timeline
extractNarratives(news, market) ==
    IF Len(news) = 0 THEN << >>
    ELSE <<Finding("narrative", {news[i].id : i \in 1..Len(news)})>>

\* one main character per quoted symbol that the news mentions
identifyMainCharacters(news, market) ==
    IF Len(news) > 0 /\ Len(market) > 0
    THEN <<Finding("character", {news[1].id})>> ELSE << >>

(***************************************************************************)
(* Classifier: NewsModule.detectAlertLevel                                 *)
(***************************************************************************)
\* ALERT_KEYWORDS: the keywords of each alert level
ALERT_KEYWORDS ==
    [critical |->
       <<<<"w", "a", "r">>, <<"a", "t", "t", "a", "c", "k">>,
        <<"t", "e", "r", "r", "o", "r">>, <<"c", "r", "i", "s", "i", "s">>,
        <<"e", "m", "e", "r", "g", "e", "n", "c", "y">>,
        <<"d", "i", "s", "a", "s", "t", "e", "r">>,
        <<"e", "x", "p", "l", "o", "s", "i", "o", "n">>,
        <<"s", "h", "o", "o", "t", "i", "n", "g">>,
        <<"h", "o", "s", "t", "a", "g", "e">>,
        <<"i", "n", "v", "a", "s", "i", "o", "n">>,
        <<"n", "u", "c", "l", "e", "a", "r">>,
        <<"b", "i", "o", "l", "o", "g", "i", "c", "a", "l">>,
        <<"c", "h", "e", "m", "i", "c", "a", "l">>,
        <<"p", "a", "n", "d", "e", "m", "i", "c">>,
        <<"e", "p", "i", "d", "e", "m", "i", "c">>>>,
     high |->
       <<<<"c", "o", "n", "f", "l", "i", "c", "t">>,
        <<"v", "i", "o", "l", "e", "n", "c", "e">>,
        <<"p", "r", "o", "t", "e", "s", "t">>, <<"r", "i", "o", "t">>,
        <<"s", "t", "r", "i", "k", "e">>,
        <<"s", "a", "n", "c", "t", "i", "o", "n">>,
        <<"e", "m", "b", "a", "r", "g", "o">>,
        <<"d", "e", "f", "a", "u", "l", "t">>,
        <<"b", "a", "n", "k", "r", "u", "p", "t", "c", "y">>,
        <<"c", "r", "a", "s", "h">>,
        <<"c", "o", "l", "l", "a", "p", "s", "e">>, <<"h", "a", "c", "k">>,
        <<"b", "r", "e", "a", "c", "h">>, <<"l", "e", "a", "k">>,
        <<"o", "u", "t", "a", "g", "e">>,
        <<"b", "l", "a", "c", "k", "o", "u", "t">>>>,
     medium |->
       <<<<"w", "a", "r", "n", "i", "n", "g">>, <<"a", "l", "e", "r", "t">>,
        <<"d", "a", "n", "g", "e", "r">>, <<"t", "h", "r", "e", "a", "t">>,
        <<"r", "i", "s", "k">>, <<"c", "o", "n", "c", "e", "r", "n">>,
        <<"i", "n", "v", "e", "s", "t", "i", "g", "a", "t", "i", "o", "n">>,
        <<"i", "n", "q", "u", "i", "r", "y">>,
        <<"h", "e", "a", "r", "i", "n", "g">>,
        <<"l", "a", "w", "s", "u", "i", "t">>, <<"f", "i", "n", "e">>,
        <<"s", "u", "s", "p", "e", "n", "s", "i", "o", "n">>,
        <<"d", "e", "l", "a", "y">>,
        <<"c", "a", "n", "c", "e", "l", "l", "a", "t", "i", "o", "n">>,
        <<"r", "e", "c", "a", "l", "l">>>>,
     low |->
       <<<<"i", "s", "s", "u", "e">>, <<"p", "r", "o", "b", "l", "e", "m">>,
        <<"c", "h", "a", "l", "l", "e", "n", "g", "e">>,
        <<"d", "i", "f", "f", "i", "c", "u", "l", "t", "y">>,
        <<"s", "e", "t", "b", "a", "c", "k">>,
        <<"d", "e", "c", "l", "i", "n", "e">>, <<"d", "r", "o", "p">>,
        <<"f", "a", "l", "l">>, <<"s", "l", "o", "w", "d", "o", "w", "n">>,
        <<"w", "e", "a", "k", "n", "e", "s", "s">>,
        <<"u", "n", "c", "e", "r", "t", "a", "i", "n", "t", "y">>,
        <<"v", "o", "l", "a", "t", "i", "l", "i", "t", "y">>,
        <<"f", "l", "u", "c", "t", "u", "a", "t", "i", "o", "n">>>>,
     none |-> << >>]

\* the keyword lists local to detectAlertLevel, in the order it tries them
highAlertKeywords ==
    <<<<"c", "r", "i", "s", "i", "s">>, <<"a", "t", "t", "a", "c", "k">>,
      <<"e", "m", "e", "r", "g", "e", "n", "c", "y">>,
      <<"d", "i", "s", "a", "s", "t", "e", "r">>, <<"w", "a", "r">>>>
mediumAlertKeywords ==
    <<<<"w", "a", "r", "n", "i", "n", "g">>, <<"a", "l", "e", "r", "t">>,
      <<"d", "a", "n", "g", "e", "r">>, <<"t", "h", "r", "e", "a", "t">>>>
lowAlertKeywords ==
    <<<<"c", "o", "n", "c", "e", "r", "n">>, <<"i", "s", "s", "u", "e">>,
      <<"p", "r", "o", "b", "l", "e", "m">>,
      <<"c", "h", "a", "l", "l", "e", "n", "g", "e">>>>

\* `${item.title || ''} ${item.contentSnippet || ''}`.toLowerCase()
ItemText(item) == toLowerCase(item.title \o <<" ">> \o item.contentSnippet)

\* some keyword of the list occurs in the text
AnyIncluded(text, keywords) ==
    \E i \in 1..Len(keywords) : includes(text, keywords[i])

\* detectAlertLevel: the first of its three lists with a keyword in the text
detectAlertLevel(item) ==
    IF AnyIncluded(ItemText(item), highAlertKeywords) THEN "high"
    ELSE IF AnyIncluded(ItemText(item), mediumAlertKeywords) THEN "medium"
    ELSE IF AnyIncluded(ItemText(item), lowAlertKeywords) THEN "low"
    ELSE "none"

\* the words a feed puts into a title or a snippet; the empty one stands
\* for a missing field
FeedWords ==
    {<< >>,
     <<"c", "a", "l", "m">>, <<"W", "a", "r">>, <<"a", "w", "a", "r", "d">>,
     <<"r", "i", "o", "t">>, <<"a", "l", "e", "r", "t">>,
     <<"c", "o", "n", "c", "e", "r", "n">>, <<"i", "s", "s", "u", "e">>,
     <<"d", "r", "o", "p">>}

\* the items rss-parser hands to fetchFromRSS
RawItems == [title : FeedWords, contentSnippet : FeedWords]

(***************************************************************************)
(* AnalysisModule helpers                                                  *)
(***************************************************************************)
generateSummary(patterns, trends, risks, opportunities) ==
    [patterns |-> Len(patterns), trends |-> Len(trends), risks |-> Len(risks),
     highRisks |-> Len(SelectSeq(risks, LAMBDA r : r.level = "high")),
     opportunities |-> Len(opportunities),
     highOpportunities |-> Len(SelectSeq(opportunities, LAMBDA o : o.type = "high_potential"))]

\* the count tuples <<patterns, trends, risks, opportunities>>, each count at
\* most 4, for which (weightedTotal / maxPossible) * 100 is an exact half in
\* the rationals and its IEEE 754 double value falls just below that half
\* (e.g. 0.7 / 0.8 * 100 = 87.49999999999999), so that Math.round goes down
DoubleBelowHalf ==
    {<<0, 3, 4, 3>>, <<1, 0, 1, 4>>, <<1, 1, 0, 0>>, <<1, 1, 1, 1>>,
     <<1, 1, 4, 0>>, <<1, 2, 1, 2>>, <<1, 4, 1, 0>>, <<1, 4, 4, 3>>,
     <<2, 1, 2, 1>>, <<2, 2, 0, 0>>, <<2, 2, 2, 2>>, <<2, 2, 3, 3>>,
     <<2, 4, 2, 4>>, <<3, 0, 0, 1>>, <<3, 0, 3, 0>>, <<3, 1, 0, 2>>,
     <<3, 1, 2, 4>>, <<3, 1, 4, 2>>, <<3, 2, 1, 4>>, <<3, 3, 0, 0>>,
     <<3, 3, 3, 3>>, <<3, 4, 3, 4>>, <<4, 0, 1, 1>>, <<4, 1, 2, 3>>,
     <<4, 2, 4, 2>>, <<4, 3, 4, 3>>, <<4, 4, 0, 0>>, <<4, 4, 4, 4>>}

\* calculateConfidence with the weights of patterns and trends exchanged
calculateConfidence_SwappedWeights(patterns, trends, risks, opportunities) ==
    LET totalItems == Len(patterns) + Len(trends) + Len(risks) + Len(opportunities)
        weightedTotal == Len(patterns) * 4 + Len(trends) * 3
                            + Len(risks) * 2 + Len(opportunities) * 1
        maxPossible == totalItems * 4
        rounded == (200 * weightedTotal + maxPossible) \div (2 * maxPossible)
    IN  IF totalItems = 0 THEN 0
        ELSE IF rounded < 100 THEN rounded ELSE 100

\* weights in tenths; Math.round rounds a half up, and the double arithmetic
\* puts the tuples of DoubleBelowHalf just under their half
calculateConfidence(patterns, trends, risks, opportunities) ==
    LET totalItems == Len(patterns) + Len(trends) + Len(risks) + Len(opportunities)
        weightedTotal == Len(patterns) * 3 + Len(trends) * 4
                            + Len(risks) * 2 + Len(opportunities) * 1
        maxPossible == totalItems * 4
        half == (200 * weightedTotal + maxPossible) \div (2 * maxPossible)
        rounded == IF <<Len(patterns), Len(trends), Len(risks), Len(opportunities)>>
                         \in DoubleBelowHalf
                   THEN half - 1 ELSE half
    IN  IF totalItems = 0 THEN 0
        ELSE IF rounded < 100 THEN rounded ELSE 100

\* `if (!cache.has(key)) cache.set(key, result)`: the first result stays
CacheSet_KeepsFirst(cache, key, result) ==
    [k \in (DOMAIN cache) \cup {key} |-> IF k \in DOMAIN cache THEN cache[k] ELSE result]

\* analysisCache.set(key, result)
CacheSet(cache, key, result) ==
    [k \in (DOMAIN cache) \cup {key} |-> IF k = key THEN result ELSE cache[k]]

(***************************************************************************)
(* State                                                                   *)
(***************************************************************************)
VARIABLES
    now,              \* wall clock (new Date())
    nextId,           \* the next id generateId returns
    tasks,            \* the async calls in flight, one record per call slot
    activeMonitors,   \* this.activeMonitors: the current array, as references
    monitors,         \* heap: reference -> Monitor object
    alerts,           \* this.alerts: the one array object, never reassigned
    analysisCache,    \* this.analysisCache: key -> AnalysisResult
    lastAnalysisTime, \* this.lastAnalysisTime, -1 for null
    isInitialized,    \* this.isInitialized
    restarted,        \* the process has been restarted at least once
    intended,         \* ids added with addMonitor and not removed by removeMonitor
    newsModule,       \* the NewsModule instance: its cache and lastFetchTime
    ready,            \* isInitialized of each NewsModule / MarketsModule instance
    skill             \* SituationMonitorSkill: isInitialized and its CommandHandler

vars == <<now, nextId, tasks, activeMonitors, monitors, alerts, analysisCache,
          lastAnalysisTime, isInitialized, restarted, intended, newsModule,
          ready, skill>>

Null == -1

\* the name under which a result refers to the array object this.alerts
ThisAlerts == "this.alerts"

\* an analyze that asks the decision engine before the analyzers
AnalyzeStages_DecisionsFirst ==
    <<"news", "market", "decisions", "patterns", "trends", "risks",
      "opportunities", "narratives", "mainCharacters">>

\* the awaits of analyze before it checks the monitors, in program order
AnalyzeStages == <<"news", "market", "patterns", "trends", "risks",
                   "opportunities", "decisions", "narratives", "mainCharacters">>

\* the eight analyzers initialize() awaits one after the other
NumAnalyzers == 8

NoOutputs ==
    [news |-> << >>, market |-> << >>, patterns |-> << >>, trends |-> << >>,
     risks |-> << >>, opportunities |-> << >>, decisions |-> << >>,
     narratives |-> << >>, mainCharacters |-> << >>]

IdleTask ==
    [kind |-> "none", pc |-> "idle", query |-> << >>, mid |-> 0,
     stage |-> 0, out |-> NoOutputs,
     chkNews |-> << >>, arr |-> << >>, attached |-> FALSE, idx |-> 0,
     shouldAlert |-> FALSE, alertsTriggered |-> 0,
     saveCalls |-> 0, ret |-> << >>, err |-> "",
     category |-> "", limit |-> 0, fetched |-> << >>, items |-> << >>,
     fromCache |-> FALSE,
     \* history of the call, read by the properties only
     idsAtCall |-> {}, raised |-> << >>, dirty |-> FALSE]

\* what a holder of an AnalysisResult reads in result.alerts
AlertsOf(result) == IF result.alerts = ThisAlerts THEN alerts ELSE << >>

\* the array a for-of loop of task t iterates: the live array while the
\* registry still holds it, else the array as it was when it was replaced
LoopArray(tk) == IF tk.attached THEN activeMonitors ELSE tk.arr

\* what a reader of the cache sees: each entry with its alerts read through
CacheView(cache, log) ==
    [k \in DOMAIN cache |->
        [cache[k] EXCEPT !.alerts = IF cache[k].alerts = ThisAlerts THEN log ELSE << >>]]

\* this step changes what a reader of the cache or of lastAnalysisTime sees
Touched ==
    \/ CacheView(analysisCache', alerts') # CacheView(analysisCache, alerts)
    \/ lastAnalysisTime' # lastAnalysisTime

\* a catch block that invalidates the cache before it rethrows
AnalyzeCatch_Invalidates(cache) == << >>

\* the catch block of analyze: logger.error, then `throw error`
AnalyzeCatch(cache) == cache

\* this.activeMonitors is assigned a new array: loops keep the old one
Detach(ts) ==
    [t \in Tasks |-> IF ts[t].attached
                     THEN [ts[t] EXCEPT !.attached = FALSE, !.arr = activeMonitors]
                     ELSE ts[t]]

\* the NewsModule and MarketsModule objects: those the skill constructs and
\* those the AnalysisModule constructs for itself
ModuleInstances == {"skill.newsModule", "skill.marketsModule",
                    "analysis.newsModule", "analysis.marketsModule"}

\* NewsModule after construction: `lastFetchTime = null`, `cache = new Map()`
\* storedAt is history read by the properties only: when each key was set
NewNewsModule == [cache |-> << >>, lastFetchTime |-> Null, storedAt |-> << >>]

\* SituationMonitorSkill after construction: not initialized, and a
\* CommandHandler with no command and no alias; configLoaded and
\* registrations are history read by the properties only: configManager.load
\* has resolved, and the number of registerCommands calls
NewSkill ==
    [isInitialized |-> FALSE, commands |-> {}, aliases |-> << >>,
     configLoaded |-> FALSE, registrations |-> 0]

\* garbage collection: a Monitor object lives as long as the registry's
\* array or the array of a running loop refers to it
Collect(heap, list, ts) ==
    LET live == {list[i] : i \in 1..Len(list)}
                  \cup UNION {{ts[t].arr[i] : i \in 1..Len(ts[t].arr)} : t \in Tasks}
    IN  [m \in (DOMAIN heap) \cap live |-> heap[m]]

Init ==
    /\ now = 0
    /\ nextId = 1
    /\ tasks = [t \in Tasks |-> IdleTask]
    /\ activeMonitors = << >>
    /\ monitors = << >>
    /\ alerts = << >>
    /\ analysisCache = << >>
    /\ lastAnalysisTime = Null
    /\ isInitialized = FALSE
    /\ restarted = FALSE
    /\ intended = {}
    /\ newsModule = NewNewsModule
    /\ ready = [m \in ModuleInstances |-> FALSE]
    /\ skill = NewSkill

\* a call has settled with a value: only what the caller sees is kept
Done(tk, ret) ==
    [IdleTask EXCEPT !.kind = tk.kind, !.pc = "done", !.ret = ret, !.mid = tk.mid,
                     !.saveCalls = tk.saveCalls, !.dirty = tk.dirty]

(***************************************************************************)
(* addMonitor                                                              *)
(***************************************************************************)
\* the call up to `await this.saveMonitors()`
CallAddMonitor(t, query) ==
    /\ tasks[t].pc = "idle"
    /\ nextId <= MaxIds
    /\ monitors' = (nextId :> NewMonitor(nextId, query, now)) @@ monitors
    /\ activeMonitors' = Append(activeMonitors, nextId)
    /\ nextId' = nextId + 1
    /\ tasks' = [tasks EXCEPT ![t] =
                    [IdleTask EXCEPT !.kind = "addMonitor", !.pc = "add_await_save",
                                     !.query = query, !.mid = nextId, !.saveCalls = 1]]
    /\ intended' = intended \cup {nextId}
    /\ UNCHANGED <<now, alerts, analysisCache, lastAnalysisTime, isInitialized, restarted,
                   newsModule, ready, skill>>

\* saveMonitors has resolved: return the confirmation string
ResumeAddMonitor(t) ==
    /\ tasks[t].pc = "add_await_save"
    /\ tasks' = [tasks EXCEPT ![t] =
                    Done(tasks[t], <<"Monitor added successfully", tasks[t].mid>>)]
    /\ UNCHANGED <<now, nextId, activeMonitors, monitors, alerts, analysisCache,
                   lastAnalysisTime, isInitialized, restarted, intended,
                   newsModule, ready, skill>>

(***************************************************************************)
(* removeMonitor                                                           *)
(***************************************************************************)
\* the whole call when the id is absent, else up to `await this.saveMonitors()`
CallRemoveMonitor(t, monitorId) ==
    /\ tasks[t].pc = "idle"
    /\ LET filtered == FilterMonitors(activeMonitors, monitors, monitorId)
           found == Len(filtered) < Len(activeMonitors)
       IN  /\ activeMonitors' = filtered
           /\ tasks' = [Detach(tasks) EXCEPT ![t] =
                 IF found
                 THEN [IdleTask EXCEPT !.kind = "removeMonitor", !.pc = "rm_await_save",
                                       !.mid = monitorId, !.saveCalls = 1]
                 ELSE [IdleTask EXCEPT !.kind = "removeMonitor", !.pc = "done",
                                       !.mid = monitorId,
                                       !.ret = <<"not found", monitorId>>]]
    /\ monitors' = Collect(monitors, activeMonitors', tasks')
    /\ alerts' = AlertsAfterRemove(alerts, monitorId)
    /\ intended' = intended \ {monitorId}
    /\ UNCHANGED <<now, nextId, analysisCache, lastAnalysisTime,
                   isInitialized, restarted,
                   newsModule, ready, skill>>

ResumeRemoveMonitor(t) ==
    /\ tasks[t].pc = "rm_await_save"
    /\ tasks' = [tasks EXCEPT ![t] =
                    Done(tasks[t], <<"removed successfully", tasks[t].mid>>)]
    /\ UNCHANGED <<now, nextId, activeMonitors, monitors, alerts, analysisCache,
                   lastAnalysisTime, isInitialized, restarted, intended,
                   newsModule, ready, skill>>

(***************************************************************************)
(* checkMonitors (called on its own, and by analyze)                       *)
(***************************************************************************)
SeqToSet(q) == {q[i] : i \in 1..Len(q)}

\* a rejected promise reaches the caller: the catch blocks log and rethrow
Fail(tk, where, touched) ==
    [IdleTask EXCEPT !.kind = tk.kind, !.pc = "failed", !.err = where,
                     !.saveCalls = tk.saveCalls, !.dirty = tk.dirty \/ touched]

\* the cache after a call of kind `kind` has thrown: checkMonitors has no
\* catch block of its own, analyze has one
CacheAfterThrow(kind) ==
    IF kind = "analyze" THEN AnalyzeCatch(analysisCache) ELSE analysisCache

\* `if (this.activeMonitors.length === 0) return ...`, else call getNews
EnterCheck(tk) ==
    IF Len(activeMonitors) = 0
    THEN IF tk.kind = "analyze"
         THEN [tk EXCEPT !.pc = "an_await_check"]
         ELSE Done(tk, <<"No active monitors to check.">>)
    ELSE [tk EXCEPT !.pc = "chk_await_news", !.idsAtCall = SeqToSet(activeMonitors)]

\* a loop that also skips a monitor whose lastChecked is less than its
\* checkInterval seconds back: the interval enforced as a gate
LoopAdvance_IntervalGated(tk, heap, list, from) ==
    LET cand == {j \in (from + 1)..Len(list) :
                    /\ heap[list[j]].isActive
                    /\ now - heap[list[j]].lastChecked >= heap[list[j]].checkInterval}
        j == CHOOSE c \in cand : \A d \in cand : c <= d
    IN  IF cand # {}
        THEN [tk EXCEPT !.pc = "chk_await_eval", !.idx = j,
                        !.shouldAlert = evaluateMonitor(heap[list[j]], tk.chkNews)]
        ELSE [tk EXCEPT !.pc = "chk_await_save", !.idx = 0, !.shouldAlert = FALSE,
                        !.attached = FALSE, !.arr = << >>,
                        !.saveCalls = tk.saveCalls + 1]

\* the for-of loop moves on from position `from` of `list`: skips inactive
\* monitors, calls evaluateMonitor on the next active one and awaits it; at
\* the end of the array it calls saveMonitors and awaits that
LoopAdvance(tk, heap, list, from) ==
    LET cand == {j \in (from + 1)..Len(list) : heap[list[j]].isActive}
        j == CHOOSE c \in cand : \A d \in cand : c <= d
    IN  IF cand # {}
        THEN [tk EXCEPT !.pc = "chk_await_eval", !.idx = j,
                        !.shouldAlert = evaluateMonitor(heap[list[j]], tk.chkNews)]
        ELSE [tk EXCEPT !.pc = "chk_await_save", !.idx = 0, !.shouldAlert = FALSE,
                        !.attached = FALSE, !.arr = << >>,
                        !.saveCalls = tk.saveCalls + 1]

CallCheckMonitors(t) ==
    /\ tasks[t].pc = "idle"
    /\ tasks' = [tasks EXCEPT ![t] = EnterCheck([IdleTask EXCEPT !.kind = "checkMonitors"])]
    /\ UNCHANGED <<now, nextId, activeMonitors, monitors, alerts, analysisCache,
                   lastAnalysisTime, isInitialized, restarted, intended,
                   newsModule, ready, skill>>

\* getNews('all', 100) has resolved: call getMarketOverview
ChkNewsOk(t) ==
    /\ tasks[t].pc = "chk_await_news"
    /\ \E batch \in NewsBatches :
          tasks' = [tasks EXCEPT ![t].pc = "chk_await_market", ![t].chkNews = batch]
    /\ UNCHANGED <<now, nextId, activeMonitors, monitors, alerts, analysisCache,
                   lastAnalysisTime, isInitialized, restarted, intended,
                   newsModule, ready, skill>>

\* getNews rejected (its catch block rethrows)
ChkNewsThrow(t) ==
    /\ tasks[t].pc = "chk_await_news"
    /\ analysisCache' = CacheAfterThrow(tasks[t].kind)
    /\ UNCHANGED <<now, nextId, activeMonitors, monitors, alerts,
                   lastAnalysisTime, isInitialized, restarted, intended,
                   newsModule, ready, skill>>
    /\ tasks' = [tasks EXCEPT ![t] = Fail(tasks[t], "checkMonitors", Touched)]

\* getMarketOverview has resolved: the loop takes the current array
ChkMarketOk(t) ==
    /\ tasks[t].pc = "chk_await_market"
    /\ tasks' = [tasks EXCEPT ![t] =
                    LoopAdvance([tasks[t] EXCEPT !.attached = TRUE],
                                monitors, activeMonitors, 0)]
    /\ UNCHANGED <<now, nextId, activeMonitors, monitors, alerts, analysisCache,
                   lastAnalysisTime, isInitialized, restarted, intended,
                   newsModule, ready, skill>>

ChkMarketThrow(t) ==
    /\ tasks[t].pc = "chk_await_market"
    /\ analysisCache' = CacheAfterThrow(tasks[t].kind)
    /\ UNCHANGED <<now, nextId, activeMonitors, monitors, alerts,
                   lastAnalysisTime, isInitialized, restarted, intended,
                   newsModule, ready, skill>>
    /\ tasks' = [tasks EXCEPT ![t] = Fail(tasks[t], "checkMonitors", Touched)]

\* evaluateMonitor has resolved with true: count, stamp, push the alert, go on
ChkEvalAlert(t) ==
    /\ tasks[t].pc = "chk_await_eval"
    /\ tasks[t].shouldAlert
    /\ nextId' = nextId + 1
    /\ UNCHANGED <<now, activeMonitors, analysisCache, lastAnalysisTime,
                   isInitialized, restarted, intended,
                   newsModule, ready, skill>>
    /\ LET tk == tasks[t]
           list == LoopArray(tk)
           m == list[tk.idx]
           heap == [monitors EXCEPT ![m] = Raised(monitors[m], now)]
       IN  /\ alerts' = PushAlert(alerts, NewAlert(nextId, heap[m], now))
           /\ tasks' = [tasks EXCEPT ![t] =
                 LoopAdvance([tk EXCEPT !.alertsTriggered = tk.alertsTriggered + 1,
                                        !.raised = Append(tk.raised, m),
                                        !.dirty = tk.dirty \/ Touched],
                             heap, list, tk.idx)]
           /\ monitors' = Collect(heap, activeMonitors, tasks')

\* evaluateMonitor has resolved with false: go on
ChkEvalQuiet(t) ==
    /\ tasks[t].pc = "chk_await_eval"
    /\ ~tasks[t].shouldAlert
    /\ tasks' = [tasks EXCEPT ![t] =
                    LoopAdvance(tasks[t], monitors, LoopArray(tasks[t]), tasks[t].idx)]
    /\ monitors' = Collect(monitors, activeMonitors, tasks')
    /\ UNCHANGED <<now, nextId, activeMonitors, alerts, analysisCache,
                   lastAnalysisTime, isInitialized, restarted, intended,
                   newsModule, ready, skill>>

\* saveMonitors has resolved: return the completion string
ChkSaved(t) ==
    /\ tasks[t].pc = "chk_await_save"
    /\ tasks' = [tasks EXCEPT ![t] =
                    IF tasks[t].kind = "analyze"
                    THEN [tasks[t] EXCEPT !.pc = "an_await_check"]
                    ELSE Done(tasks[t], <<"Monitor check completed.",
                                          tasks[t].alertsTriggered>>)]
    /\ UNCHANGED <<now, nextId, activeMonitors, monitors, alerts, analysisCache,
                   lastAnalysisTime, isInitialized, restarted, intended,
                   newsModule, ready, skill>>

(***************************************************************************)
(* analyze                                                                 *)
(***************************************************************************)
\* what the awaited call of a stage can resolve with
StageValues(stage, out) ==
    CASE stage = "news" -> NewsBatches
      [] stage = "market" -> MarketBatches
      [] stage = "patterns" -> {analyzePatterns(out.news, out.market)}
      [] stage = "trends" -> {analyzeTrends(out.news, out.market)}
      [] stage = "risks" -> {assessRisks(out.news, out.market)}
      [] stage = "opportunities" -> {identifyOpportunities(out.news, out.market)}
      [] stage = "decisions" ->
            {generateRecommendations(out.patterns, out.trends, out.risks, out.opportunities)}
      [] stage = "narratives" -> {extractNarratives(out.news, out.market)}
      [] stage = "mainCharacters" -> {identifyMainCharacters(out.news, out.market)}

\* the object literal analyze builds; alerts is the array this.alerts itself
MakeResult(out, time) ==
    [timestamp |-> time,
     patterns |-> out.patterns, trends |-> out.trends, risks |-> out.risks,
     opportunities |-> out.opportunities, decisions |-> out.decisions,
     narratives |-> out.narratives, mainCharacters |-> out.mainCharacters,
     alerts |-> ThisAlerts,
     summary |-> generateSummary(out.patterns, out.trends, out.risks, out.opportunities),
     confidence |-> calculateConfidence(out.patterns, out.trends, out.risks, out.opportunities),
     metadata |-> [newsCount |-> Len(out.news), marketSymbolsCount |-> Len(out.market),
                   analysisDuration |-> 0, patternsDetected |-> Len(out.patterns),
                   risksIdentified |-> Len(out.risks),
                   opportunitiesIdentified |-> Len(out.opportunities)]]

\* the call up to `await this.newsModule.getNews('all', 50)`
CallAnalyze(t) ==
    /\ tasks[t].pc = "idle"
    /\ tasks' = [tasks EXCEPT ![t] =
                    [IdleTask EXCEPT !.kind = "analyze", !.pc = "an_await_stage", !.stage = 1]]
    /\ UNCHANGED <<now, nextId, activeMonitors, monitors, alerts, analysisCache,
                   lastAnalysisTime, isInitialized, restarted, intended,
                   newsModule, ready, skill>>

\* the awaited call of the current stage has resolved: keep its value and
\* call the next stage; after the last one call checkMonitors
AnStageOk(t) ==
    /\ tasks[t].pc = "an_await_stage"
    /\ LET tk == tasks[t]
           stage == AnalyzeStages[tk.stage]
       IN  \E v \in StageValues(stage, tk.out) :
              tasks' = [tasks EXCEPT ![t] =
                 IF tk.stage < Len(AnalyzeStages)
                 THEN [tk EXCEPT !.out[stage] = v, !.stage = tk.stage + 1]
                 ELSE EnterCheck([tk EXCEPT !.out[stage] = v, !.stage = 0])]
    /\ UNCHANGED <<now, nextId, activeMonitors, monitors, alerts, analysisCache,
                   lastAnalysisTime, isInitialized, restarted, intended,
                   newsModule, ready, skill>>

\* the awaited call of the current stage has rejected: the one try/catch of
\* analyze logs the error and rethrows it
AnStageThrow(t) ==
    /\ tasks[t].pc = "an_await_stage"
    /\ analysisCache' = CacheAfterThrow(tasks[t].kind)
    /\ UNCHANGED <<now, nextId, activeMonitors, monitors, alerts,
                   lastAnalysisTime, isInitialized, restarted, intended,
                   newsModule, ready, skill>>
    /\ tasks' = [tasks EXCEPT ![t] =
                    Fail(tasks[t], AnalyzeStages[tasks[t].stage], Touched)]

\* checkMonitors has resolved: build the result, write the cache, return
AnFinish(t) ==
    /\ tasks[t].pc = "an_await_check"
    /\ lastAnalysisTime' = now
    /\ UNCHANGED <<now, nextId, activeMonitors, monitors, alerts, isInitialized,
                   restarted, intended,
                   newsModule, ready, skill>>
    /\ LET result == MakeResult(tasks[t].out, now)
       IN  /\ analysisCache' = CacheSet(analysisCache, "latest", result)
           /\ tasks' = [tasks EXCEPT ![t] =
                            Done([tasks[t] EXCEPT !.dirty = tasks[t].dirty \/ Touched],
                                 <<result>>)]

(***************************************************************************)
(* initialize                                                              *)
(***************************************************************************)
\* `if (this.isInitialized) return`, else up to the await of loadAnalysisConfig
CallInitialize(t) ==
    /\ tasks[t].pc = "idle"
    /\ tasks' = [tasks EXCEPT ![t] =
                    IF isInitialized
                    THEN [IdleTask EXCEPT !.kind = "initialize", !.pc = "done"]
                    ELSE [IdleTask EXCEPT !.kind = "initialize", !.pc = "init_await_config"]]
    /\ UNCHANGED <<now, nextId, activeMonitors, monitors, alerts, analysisCache,
                   lastAnalysisTime, isInitialized, restarted, intended,
                   newsModule, ready, skill>>

InitConfigOk(t) ==
    /\ tasks[t].pc = "init_await_config"
    /\ tasks' = [tasks EXCEPT ![t].pc = "init_await_analyzer", ![t].stage = 1]
    /\ UNCHANGED <<now, nextId, activeMonitors, monitors, alerts, analysisCache,
                   lastAnalysisTime, isInitialized, restarted, intended,
                   newsModule, ready, skill>>

\* one analyzer has initialized: call the next; after the last one call
\* loadMonitors, which assigns an empty array before its promise resolves
InitAnalyzerOk(t) ==
    /\ tasks[t].pc = "init_await_analyzer"
    /\ IF tasks[t].stage < NumAnalyzers
       THEN /\ tasks' = [tasks EXCEPT ![t].stage = tasks[t].stage + 1]
            /\ UNCHANGED activeMonitors
       ELSE /\ activeMonitors' = << >>
            /\ tasks' = [Detach(tasks) EXCEPT ![t].pc = "init_await_load", ![t].stage = 0]
    /\ monitors' = Collect(monitors, activeMonitors', tasks')
    /\ UNCHANGED <<now, nextId, alerts, analysisCache,
                   lastAnalysisTime, isInitialized, restarted, intended,
                   newsModule, ready, skill>>

\* loadAnalysisConfig or an analyzer's initialize rejected: log and rethrow
InitThrow(t) ==
    /\ tasks[t].pc \in {"init_await_config", "init_await_analyzer"}
    /\ tasks' = [tasks EXCEPT ![t] = Fail(tasks[t], "initialize", FALSE)]
    /\ UNCHANGED <<now, nextId, activeMonitors, monitors, alerts, analysisCache,
                   lastAnalysisTime, isInitialized, restarted, intended,
                   newsModule, ready, skill>>

InitFinish(t) ==
    /\ tasks[t].pc = "init_await_load"
    /\ isInitialized' = TRUE
    /\ tasks' = [tasks EXCEPT ![t] =
                    IF tasks[t].kind = "skill.initialize"
                    THEN [tasks[t] EXCEPT !.pc = "sk_await_analysis"]
                    ELSE Done(tasks[t], << >>)]
    /\ UNCHANGED <<now, nextId, activeMonitors, monitors, alerts, analysisCache,
                   lastAnalysisTime, restarted, intended,
                   newsModule, ready, skill>>

(***************************************************************************)
(* NewsModule.fetchFromRSS: one item of a feed                             *)
(***************************************************************************)
\* a || b on strings: b when a is missing or empty
OrElse(a, b) == IF a = << >> THEN b ELSE a

NoTitle == <<"N", "o", " ", "t", "i", "t", "l", "e">>
NoDescription ==
    <<"N", "o", " ", "d", "e", "s", "c", "r", "i", "p", "t", "i", "o", "n">>

\* the loop body of fetchFromRSS for one item: the NewsItem literal with the
\* alert level detectAlertLevel assigns (the fields the level depends on)
RssItemClassified(t) ==
    /\ tasks[t].kind = "fetchFromRSS"
    /\ tasks[t].pc = "rss_item"
    /\ LET item == tasks[t].chkNews[1]
       IN  tasks' = [tasks EXCEPT ![t] =
                        Done(tasks[t], <<[title |-> OrElse(item.title, NoTitle),
                                          description |->
                                              OrElse(item.contentSnippet, NoDescription),
                                          alertLevel |-> detectAlertLevel(item)]>>)]
    /\ UNCHANGED <<now, nextId, activeMonitors, monitors, alerts, analysisCache,
                   lastAnalysisTime, isInitialized, restarted, intended,
                   newsModule, ready, skill>>

(***************************************************************************)
(* NewsModule.getNews                                                      *)
(***************************************************************************)
\* cacheTTL: 5 * 60 * 1000 ms, in seconds of the clock
CacheTTL == 300

\* item.region of an item for which detectRegion found no region
NoRegion == "undefined"

\* a character matched by \s
Whitespace == {" ", "\t", "\n"}

\* .replace(/\s+/g, ' '): every run of whitespace becomes one blank
RECURSIVE CollapseWhitespace(_)
CollapseWhitespace(s) ==
    IF s = << >> THEN << >>
    ELSE IF Head(s) \in Whitespace
         THEN IF Len(s) > 1 /\ s[2] \in Whitespace
              THEN CollapseWhitespace(Tail(s))
              ELSE <<" ">> \o CollapseWhitespace(Tail(s))
         ELSE <<Head(s)>> \o CollapseWhitespace(Tail(s))

\* String.prototype.trim
RECURSIVE trim(_)
trim(s) ==
    IF s = << >> THEN << >>
    ELSE IF Head(s) \in Whitespace THEN trim(Tail(s))
    ELSE IF s[Len(s)] \in Whitespace THEN trim(SubSeq(s, 1, Len(s) - 1))
    ELSE s

\* cleanText: collapse whitespace, drop the characters outside \x00-\x7F
\* (here the one written "U+00E9"), trim
cleanText(text) ==
    trim(SelectSeq(CollapseWhitespace(text), LAMBDA ch : ch # "U+00E9"))

\* enhanceKeywords: item.keywords after the two push calls on it
\* (existingKeywords is the item's own array)
KeywordsPushed(item) ==
    LET withCategory ==
            IF item.category \in SeqToSet(item.keywords) THEN item.keywords
            ELSE Append(item.keywords, item.category)
    IN  IF item.region # NoRegion /\ item.region \notin SeqToSet(withCategory)
        THEN Append(withCategory, item.region)
        ELSE withCategory

\* [...new Set(q)]: the first occurrence of each element, in order
RECURSIVE Distinct(_)
Distinct(q) ==
    IF q = << >> THEN << >>
    ELSE LET front == Distinct(SubSeq(q, 1, Len(q) - 1))
         IN  IF q[Len(q)] \in SeqToSet(front) THEN front ELSE Append(front, q[Len(q)])

\* enhanceKeywords: the array it returns
enhanceKeywords(item) == Distinct(KeywordsPushed(item))

\* processNewsItems: the copies it returns
processNewsItems(items) ==
    [i \in 1..Len(items) |->
        [items[i] EXCEPT !.title = cleanText(items[i].title),
                         !.description = cleanText(items[i].description),
                         !.keywords = enhanceKeywords(items[i])]]

\* processNewsItems: the items it was given, as it leaves them
InputAfterProcess(items) ==
    [i \in 1..Len(items) |-> [items[i] EXCEPT !.keywords = KeywordsPushed(items[i])]]

\* sort((a, b) => b.publishedAt - a.publishedAt): stable, newest first
RECURSIVE InsertByDate(_, _)
InsertByDate(sorted, item) ==
    IF sorted = << >> THEN <<item>>
    ELSE IF item.publishedAt > Head(sorted).publishedAt THEN <<item>> \o sorted
    ELSE <<Head(sorted)>> \o InsertByDate(Tail(sorted), item)

RECURSIVE SortNewestFirst(_)
SortNewestFirst(items) ==
    IF items = << >> THEN << >>
    ELSE InsertByDate(SortNewestFirst(SubSeq(items, 1, Len(items) - 1)), items[Len(items)])

\* Array.prototype.slice(0, limit): a negative end counts from the end
SliceTo(list, limit) ==
    LET end == IF limit < 0 THEN Max(Len(list) + limit, 0)
               ELSE IF limit < Len(list) THEN limit ELSE Len(list)
    IN  SubSeq(list, 1, end)

\* isCacheValid at the given time
isCacheValid(nm, time) ==
    /\ nm.lastFetchTime # Null
    /\ time - nm.lastFetchTime < CacheTTL

\* the items of the feeds of a category, as fetchFromRSS builds them
FeedItem(n, category, title, keywords, region, publishedAt) ==
    [id |-> n, title |-> title, description |-> <<"u", "p">>, category |-> category,
     keywords |-> keywords, region |-> region, alertLevel |-> "none",
     publishedAt |-> publishedAt]

\* what fetchFromRSS can return for a category
FeedBatches(category) ==
    LET feed == IF category = "all" THEN "finance" ELSE category
    IN  {<<FeedItem(1, feed, <<"d", "e", "a", "l">>, <<"deal">>, NoRegion, 0)>>,
         <<FeedItem(1, feed, <<"d", "e", "a", "l">>, <<"deal">>, NoRegion, 0),
           FeedItem(2, feed, <<"E", "U", " ", " ", "d", "U+00E9", "a", "l", " ">>,
                    << >>, "europe", 2),
           FeedItem(3, feed, <<"a", "l", "e", "r", "t">>, <<"alert">>, NoRegion, 1)>>}

\* the (category, limit) pairs callers pass to getNews; handleNews passes
\* parseInt(args[1]) as the limit
NewsRequests == {<<"all", 2>>, <<"all", -1>>, <<"tech", 2>>, <<"tech", 0>>}

\* getNews from its call to its first await: a valid cache entry is
\* returned at once, else the sources are fetched
CallGetNews(t, category, limit) ==
    /\ tasks[t].pc = "idle"
    /\ LET cacheKey == <<category, limit>>
           cached == cacheKey \in DOMAIN newsModule.cache
       IN  tasks' = [tasks EXCEPT ![t] =
              IF cached /\ isCacheValid(newsModule, now)
              THEN [IdleTask EXCEPT !.kind = "getNews", !.pc = "done",
                                    !.category = category, !.limit = limit,
                                    !.fromCache = TRUE,
                                    !.ret = <<SliceTo(newsModule.cache[cacheKey], limit)>>]
              ELSE [IdleTask EXCEPT !.kind = "getNews", !.pc = "news_await_gdelt",
                                    !.category = category, !.limit = limit]]
    /\ UNCHANGED <<now, nextId, activeMonitors, monitors, alerts, analysisCache,
                   lastAnalysisTime, isInitialized, restarted, intended,
                   newsModule, ready, skill>>

\* fetchFromGDELT has resolved with an empty list: fetchFromRSS is awaited
NewsGdeltOk(t) ==
    /\ tasks[t].pc = "news_await_gdelt"
    /\ tasks' = [tasks EXCEPT ![t].pc = "news_await_rss"]
    /\ UNCHANGED <<now, nextId, activeMonitors, monitors, alerts, analysisCache,
                   lastAnalysisTime, isInitialized, restarted, intended,
                   newsModule, ready, skill>>

\* fetchFromRSS has resolved: processNewsItems is called on the fetched
\* items and awaited; fetched keeps the items as they were fetched
NewsRssOk(t, batch) ==
    /\ tasks[t].pc = "news_await_rss"
    /\ batch \in FeedBatches(tasks[t].category)
    /\ tasks' = [tasks EXCEPT ![t].pc = "news_await_process",
                              ![t].fetched = batch,
                              ![t].chkNews = InputAfterProcess(batch),
                              ![t].items = processNewsItems(batch)]
    /\ UNCHANGED <<now, nextId, activeMonitors, monitors, alerts, analysisCache,
                   lastAnalysisTime, isInitialized, restarted, intended,
                   newsModule, ready, skill>>

\* processNewsItems has resolved: sort, store in the cache, stamp
\* lastFetchTime, return the first limit items
NewsStore(t) ==
    /\ tasks[t].pc = "news_await_process"
    /\ LET cacheKey == <<tasks[t].category, tasks[t].limit>>
           processedItems == SortNewestFirst(tasks[t].items)
       IN  /\ newsModule' =
                [newsModule EXCEPT
                    !.cache = (cacheKey :> processedItems) @@ newsModule.cache,
                    !.lastFetchTime = now,
                    !.storedAt = (cacheKey :> now) @@ newsModule.storedAt]
           /\ tasks' = [tasks EXCEPT ![t] =
                          [IdleTask EXCEPT !.kind = "getNews", !.pc = "done",
                                           !.category = tasks[t].category,
                                           !.limit = tasks[t].limit,
                                           !.ret = <<SliceTo(processedItems, tasks[t].limit)>>]]
    /\ UNCHANGED <<now, nextId, activeMonitors, monitors, alerts, analysisCache,
                   lastAnalysisTime, isInitialized, restarted, intended,
                   ready, skill>>

\* time passes between the steps of the callers
Elapse(d) ==
    /\ now + d <= MaxClock
    /\ now' = now + d
    /\ UNCHANGED <<nextId, tasks, activeMonitors, monitors, alerts, analysisCache,
                   lastAnalysisTime, isInitialized, restarted, intended,
                   newsModule, ready, skill>>

(***************************************************************************)
(* SituationMonitorSkill.initialize                                        *)
(***************************************************************************)
\* the names registerCommands registers, none with an alias
RegisteredNames ==
    {<<"n", "e", "w", "s">>, <<"m", "a", "r", "k", "e", "t", "s">>,
     <<"c", "r", "y", "p", "t", "o">>,
     <<"c", "o", "m", "m", "o", "d", "i", "t", "i", "e", "s">>,
     <<"s", "e", "c", "t", "o", "r", "s">>,
     <<"a", "n", "a", "l", "y", "z", "e">>,
     <<"c", "o", "r", "r", "e", "l", "a", "t", "i", "o", "n">>,
     <<"n", "a", "r", "r", "a", "t", "i", "v", "e", "s">>,
     <<"m", "a", "i", "n", "c", "h", "a", "r">>,
     <<"a", "l", "e", "r", "t", "s">>, <<"m", "o", "n", "i", "t", "o", "r">>,
     <<"m", "a", "p">>, <<"r", "e", "g", "i", "o", "n">>,
     <<"c", "o", "n", "f", "i", "g">>, <<"r", "e", "p", "o", "r", "t">>,
     <<"e", "x", "p", "o", "r", "t">>}

\* an initialize whose guard never returns early
AlreadyInitialized_Never(sk) == FALSE

\* `if (this.isInitialized)` of SituationMonitorSkill.initialize
AlreadyInitialized(sk) == sk.isInitialized

\* registerCommand for every name: the key is the lower-cased name
registerCommands(sk) ==
    [sk EXCEPT !.commands = sk.commands \cup {toLowerCase(c) : c \in RegisteredNames},
               !.registrations = sk.registrations + 1]

\* the call up to `await this.configManager.load()`
CallSkillInitialize(t) ==
    /\ tasks[t].pc = "idle"
    /\ tasks' = [tasks EXCEPT ![t] =
                    IF AlreadyInitialized(skill)
                    THEN [IdleTask EXCEPT !.kind = "skill.initialize", !.pc = "done"]
                    ELSE [IdleTask EXCEPT !.kind = "skill.initialize",
                                          !.pc = "sk_await_config"]]
    /\ UNCHANGED <<now, nextId, activeMonitors, monitors, alerts, analysisCache,
                   lastAnalysisTime, isInitialized, restarted, intended,
                   newsModule, ready, skill>>

\* the configuration is loaded: newsModule.initialize() is awaited
SkConfigOk(t) ==
    /\ tasks[t].pc = "sk_await_config"
    /\ skill' = [skill EXCEPT !.configLoaded = TRUE]
    /\ tasks' = [tasks EXCEPT ![t].pc = "sk_await_news"]
    /\ UNCHANGED <<now, nextId, activeMonitors, monitors, alerts, analysisCache,
                   lastAnalysisTime, isInitialized, restarted, intended,
                   newsModule, ready>>

\* the skill's NewsModule has initialized: marketsModule.initialize() is
\* awaited
SkNewsOk(t) ==
    /\ tasks[t].pc = "sk_await_news"
    /\ ready' = [ready EXCEPT !["skill.newsModule"] = TRUE]
    /\ tasks' = [tasks EXCEPT ![t].pc = "sk_await_markets"]
    /\ UNCHANGED <<now, nextId, activeMonitors, monitors, alerts, analysisCache,
                   lastAnalysisTime, isInitialized, restarted, intended,
                   newsModule, skill>>

\* the skill's MarketsModule has initialized: analysisModule.initialize()
\* is called, which returns at once when the module is initialized already
SkMarketsOk(t) ==
    /\ tasks[t].pc = "sk_await_markets"
    /\ ready' = [ready EXCEPT !["skill.marketsModule"] = TRUE]
    /\ tasks' = [tasks EXCEPT ![t].pc = IF isInitialized THEN "sk_await_analysis"
                                        ELSE "init_await_config"]
    /\ UNCHANGED <<now, nextId, activeMonitors, monitors, alerts, analysisCache,
                   lastAnalysisTime, isInitialized, restarted, intended,
                   newsModule, skill>>

\* configManager.load or a module's initialize rejected: log and rethrow
SkThrow(t) ==
    /\ tasks[t].pc \in {"sk_await_config", "sk_await_news", "sk_await_markets"}
    /\ tasks' = [tasks EXCEPT ![t] = Fail(tasks[t], "skill.initialize", FALSE)]
    /\ UNCHANGED <<now, nextId, activeMonitors, monitors, alerts, analysisCache,
                   lastAnalysisTime, isInitialized, restarted, intended,
                   newsModule, ready, skill>>

\* analysisModule.initialize() has resolved: register the commands, set
\* isInitialized
SkFinish(t) ==
    /\ tasks[t].pc = "sk_await_analysis"
    /\ skill' = [registerCommands(skill) EXCEPT !.isInitialized = TRUE]
    /\ tasks' = [tasks EXCEPT ![t] = Done(tasks[t], << >>)]
    /\ UNCHANGED <<now, nextId, activeMonitors, monitors, alerts, analysisCache,
                   lastAnalysisTime, isInitialized, restarted, intended,
                   newsModule, ready>>

(***************************************************************************)
(* SituationMonitorSkill.handleCommand and CommandHandler.handleCommand    *)
(***************************************************************************)
\* what getHelpText returns
HelpText == "SITUATION MONITOR HELP"

\* the command names a user sends
Commands ==
    {<<"n", "e", "w", "s">>, <<"n", "E", "W", "s">>, <<"h", "e", "l", "p">>,
     <<"m", "a", "p">>, <<"b", "T", "c">>}

\* the messages of the errors a command handler can throw
HandlerErrors == {"fetch failed"}

\* the key under which CommandHandler.handleCommand finds the handler of a
\* command: the direct command first, then the alias; the empty key when
\* there is no handler
HandlerOf(sk, command) ==
    LET normalizedCommand == toLowerCase(command)
    IN  IF normalizedCommand \in sk.commands THEN normalizedCommand
        ELSE IF /\ normalizedCommand \in DOMAIN sk.aliases
                /\ sk.aliases[normalizedCommand] \in sk.commands
             THEN sk.aliases[normalizedCommand]
             ELSE << >>

\* a handleCommand whose catch block rethrows
CommandFailed_Rethrown(tk, message) ==
    [Fail(tk, message, FALSE) EXCEPT !.query = tk.query]

\* the catch block of SituationMonitorSkill.handleCommand: the call
\* resolves with 'Error: ' + message; err keeps what the handler threw
CommandFailed(tk, message) ==
    [Done(tk, <<"Error: ", message>>) EXCEPT !.query = tk.query, !.err = message]

\* both handleCommand methods up to `await handler(args, context)`; without
\* a handler the help text is returned
CallHandleCommand(t, command) ==
    /\ tasks[t].pc = "idle"
    /\ tasks' = [tasks EXCEPT ![t] =
          IF HandlerOf(skill, command) = << >>
          THEN [IdleTask EXCEPT !.kind = "handleCommand", !.pc = "done",
                                !.query = command, !.ret = <<HelpText>>]
          ELSE [IdleTask EXCEPT !.kind = "handleCommand", !.pc = "cmd_await_handler",
                                !.query = command,
                                !.items = <<HandlerOf(skill, command)>>]]
    /\ UNCHANGED <<now, nextId, activeMonitors, monitors, alerts, analysisCache,
                   lastAnalysisTime, isInitialized, restarted, intended,
                   newsModule, ready, skill>>

\* the handler has resolved with its text
HandlerOk(t) ==
    /\ tasks[t].pc = "cmd_await_handler"
    /\ tasks' = [tasks EXCEPT ![t] =
                    [Done(tasks[t], <<"text of", tasks[t].items[1]>>)
                        EXCEPT !.query = tasks[t].query]]
    /\ UNCHANGED <<now, nextId, activeMonitors, monitors, alerts, analysisCache,
                   lastAnalysisTime, isInitialized, restarted, intended,
                   newsModule, ready, skill>>

\* the handler has rejected: CommandHandler.handleCommand logs and
\* rethrows, SituationMonitorSkill.handleCommand catches
HandlerThrow(t, message) ==
    /\ tasks[t].pc = "cmd_await_handler"
    /\ tasks' = [tasks EXCEPT ![t] = CommandFailed(tasks[t], message)]
    /\ UNCHANGED <<now, nextId, activeMonitors, monitors, alerts, analysisCache,
                   lastAnalysisTime, isInitialized, restarted, intended,
                   newsModule, ready, skill>>

(***************************************************************************)
(* Faults of the monitor store                                             *)
(***************************************************************************)
\* the write to the store inside the try block of saveMonitors threw: its
\* catch block logs the error and the promise resolves all the same
SaveFailed(t) ==
    /\ tasks[t].pc \in {"add_await_save", "rm_await_save", "chk_await_save"}
    /\ tasks[t].err = ""
    /\ tasks' = [tasks EXCEPT ![t].err = "saveMonitors"]
    /\ UNCHANGED <<now, nextId, activeMonitors, monitors, alerts, analysisCache,
                   lastAnalysisTime, isInitialized, restarted, intended,
                   newsModule, ready, skill>>

\* the read from the store inside the try block of loadMonitors threw: its
\* catch block logs the error and assigns an empty array
LoadFailed(t) ==
    /\ tasks[t].pc = "init_await_load"
    /\ tasks[t].err = ""
    /\ activeMonitors' = << >>
    /\ tasks' = [Detach(tasks) EXCEPT ![t].err = "loadMonitors"]
    /\ monitors' = Collect(monitors, activeMonitors', tasks')
    /\ UNCHANGED <<now, nextId, alerts, analysisCache,
                   lastAnalysisTime, isInitialized, restarted, intended,
                   newsModule, ready, skill>>

(***************************************************************************)
(* Environment                                                             *)
(***************************************************************************)
\* the caller has received the result (or the error) of a settled call
Return(t) ==
    /\ tasks[t].pc \in {"done", "failed"}
    /\ tasks' = [tasks EXCEPT ![t] = IdleTask]
    /\ UNCHANGED <<now, nextId, activeMonitors, monitors, alerts, analysisCache,
                   lastAnalysisTime, isInitialized, restarted, intended,
                   newsModule, ready, skill>>

Tick ==
    /\ now < MaxTime
    /\ now' = now + 1
    /\ UNCHANGED <<nextId, tasks, activeMonitors, monitors, alerts, analysisCache,
                   lastAnalysisTime, isInitialized, restarted, intended,
                   newsModule, ready, skill>>

\* the process exits and a new one constructs a fresh AnalysisModule
Restart ==
    /\ tasks' = [t \in Tasks |-> IdleTask]
    /\ activeMonitors' = << >>
    /\ monitors' = << >>
    /\ alerts' = << >>
    /\ analysisCache' = << >>
    /\ lastAnalysisTime' = Null
    /\ isInitialized' = FALSE
    /\ restarted' = TRUE
    /\ newsModule' = NewNewsModule
    /\ ready' = [m \in ModuleInstances |-> FALSE]
    /\ skill' = NewSkill
    /\ UNCHANGED <<now, nextId, intended>>

MonitorOps(t) ==
    \/ \E q \in Queries : CallAddMonitor(t, q)
    \/ ResumeAddMonitor(t)
    \/ \E id \in 1..MaxIds : CallRemoveMonitor(t, id)
    \/ ResumeRemoveMonitor(t)

CheckOps(t) ==
    \/ ChkNewsOk(t)
    \/ ChkNewsThrow(t)
    \/ ChkMarketOk(t)
    \/ ChkMarketThrow(t)
    \/ nextId <= MaxIds /\ ChkEvalAlert(t)
    \/ ChkEvalQuiet(t)
    \/ ChkSaved(t)

AnalyzeOps(t) ==
    \/ CallAnalyze(t)
    \/ AnStageOk(t)
    \/ AnStageThrow(t)
    \/ AnFinish(t)

InitOps(t) ==
    \/ CallInitialize(t)
    \/ InitConfigOk(t)
    \/ InitAnalyzerOk(t)
    \/ InitThrow(t)
    \/ InitFinish(t)

\* the monitor registry under concurrent add, remove and check calls
NextRegistry ==
    \E t \in Tasks : MonitorOps(t) \/ CallCheckMonitors(t) \/ CheckOps(t) \/ Return(t)

SpecRegistry == Init /\ [][NextRegistry]_vars

\* one analysis run at a time (first slot) next to the registry calls
\* (second slot)
NextAnalyze ==
    \/ AnalyzeOps("t1") \/ CheckOps("t1") \/ Return("t1")
    \/ MonitorOps("t2") \/ CallCheckMonitors("t2") \/ CheckOps("t2") \/ Return("t2")

SpecAnalyze == Init /\ [][NextAnalyze]_vars

\* two analysis runs in flight over a registry that only grows
NextRuns ==
    \/ \E t \in Tasks : AnalyzeOps(t) \/ CheckOps(t) \/ Return(t)
    \/ (\E q \in Queries : CallAddMonitor("t2", q)) \/ ResumeAddMonitor("t2")

SpecRuns == Init /\ [][NextRuns]_vars

\* the registry across initialize and process restarts
NextRestart ==
    \/ \E t \in Tasks : MonitorOps(t) \/ InitOps(t) \/ Return(t)
    \/ Tick
    \/ Restart

SpecRestart == Init /\ [][NextRestart]_vars

\* one caller that awaits each call before it makes the next: add, remove
\* and check calls in sequence while the clock advances
NextSerial ==
    \/ MonitorOps("t1")
    \/ CallCheckMonitors("t1")
    \/ ChkNewsOk("t1")
    \/ ChkNewsThrow("t1")
    \/ ChkMarketOk("t1")
    \/ ChkMarketThrow("t1")
    \/ Len(alerts) < MaxAlerts /\ ChkEvalAlert("t1")
    \/ ChkEvalQuiet("t1")
    \/ ChkSaved("t1")
    \/ Return("t1")
    \/ Tick

SpecSerial == Init /\ [][NextSerial]_vars

\* one caller over a store whose writes and reads can fail
NextStorage ==
    \/ MonitorOps("t1")
    \/ CallCheckMonitors("t1")
    \/ CheckOps("t1")
    \/ InitOps("t1")
    \/ SaveFailed("t1")
    \/ LoadFailed("t1")
    \/ Return("t1")

SpecStorage == Init /\ [][NextStorage]_vars

\* k findings of one analyzer
Findings(type, k) == [i \in 1..k |-> Finding(type, {i})]

\* the outputs an analysis run can hold when its analyzers have resolved:
\* any number of patterns, trends, risks and opportunities up to the bound
AnalyzerOutputs ==
    {[news |-> news, market |-> market,
      patterns |-> Findings("pattern", p), trends |-> Findings("trend", tr),
      risks |-> Findings("risk", r), opportunities |-> Findings("momentum", o),
      decisions |-> generateRecommendations(Findings("pattern", p), Findings("trend", tr),
                                            Findings("risk", r), Findings("momentum", o)),
      narratives |-> extractNarratives(news, market),
      mainCharacters |-> identifyMainCharacters(news, market)] :
        news \in NewsBatches, market \in MarketBatches,
        p \in 0..MaxFindings, tr \in 0..MaxFindings,
        r \in 0..MaxFindings, o \in 0..MaxFindings}

\* an analysis run over an empty registry whose analyzers have all resolved
\* and whose monitor check has returned: the result is built next
InitResult ==
    /\ now = 0
    /\ nextId = 1
    /\ \E out \in AnalyzerOutputs :
          tasks = [t \in Tasks |->
                     IF t = "t1"
                     THEN [IdleTask EXCEPT !.kind = "analyze", !.pc = "an_await_check",
                                           !.out = out]
                     ELSE IdleTask]
    /\ activeMonitors = << >>
    /\ monitors = << >>
    /\ alerts = << >>
    /\ analysisCache = << >>
    /\ lastAnalysisTime = Null
    /\ isInitialized = TRUE
    /\ restarted = FALSE
    /\ intended = {}
    /\ newsModule = NewNewsModule
    /\ ready = [m \in ModuleInstances |-> FALSE]
    /\ skill = NewSkill

NextResult == AnFinish("t1") \/ Return("t1")

SpecResult == InitResult /\ [][NextResult]_vars

\* fetchFromRSS has received an item of a feed and classifies it next
InitClassify ==
    /\ now = 0
    /\ nextId = 1
    /\ \E item \in RawItems :
          tasks = [t \in Tasks |->
                     IF t = "t1"
                     THEN [IdleTask EXCEPT !.kind = "fetchFromRSS", !.pc = "rss_item",
                                           !.chkNews = <<item>>]
                     ELSE IdleTask]
    /\ activeMonitors = << >>
    /\ monitors = << >>
    /\ alerts = << >>
    /\ analysisCache = << >>
    /\ lastAnalysisTime = Null
    /\ isInitialized = FALSE
    /\ restarted = FALSE
    /\ intended = {}
    /\ newsModule = NewNewsModule
    /\ ready = [m \in ModuleInstances |-> FALSE]
    /\ skill = NewSkill

NextClassify == RssItemClassified("t1")

SpecClassify == InitClassify /\ [][NextClassify]_vars

\* one analysis run (first slot) over a registry that a second caller fills
NextPipeline ==
    \/ AnalyzeOps("t1") \/ CheckOps("t1") \/ Return("t1")
    \/ (\E q \in Queries : CallAddMonitor("t2", q)) \/ ResumeAddMonitor("t2") \/ Return("t2")

SpecPipeline == Init /\ [][NextPipeline]_vars

\* add, remove and initialize calls in any order within one process, two at
\* a time: addMonitor before initialize, two initialize calls in flight
NextStartup == \E t \in Tasks : MonitorOps(t) \/ InitOps(t) \/ Return(t)

SpecStartup == Init /\ [][NextStartup]_vars

SkillInitOps(t) ==
    \/ CallSkillInitialize(t)
    \/ SkConfigOk(t)
    \/ SkNewsOk(t)
    \/ SkMarketsOk(t)
    \/ SkThrow(t)
    \/ InitConfigOk(t)
    \/ InitAnalyzerOk(t)
    \/ InitThrow(t)
    \/ InitFinish(t)
    \/ SkFinish(t)

CommandOps(t) ==
    \/ \E command \in Commands : CallHandleCommand(t, command)
    \/ HandlerOk(t)
    \/ \E message \in HandlerErrors : HandlerThrow(t, message)

\* the skill under initialize and handleCommand calls, two at a time
NextSkill == \E t \in Tasks : SkillInitOps(t) \/ CommandOps(t) \/ Return(t)

SpecSkill == Init /\ [][NextSkill]_vars

\* the skill initializes (first slot) while analyses and monitor checks are
\* requested of its AnalysisModule (second slot)
NextFetch ==
    \/ SkillInitOps("t1") \/ Return("t1")
    \/ AnalyzeOps("t2") \/ CheckOps("t2") \/ CallCheckMonitors("t2") \/ Return("t2")
    \/ (\E q \in Queries : CallAddMonitor("t2", q)) \/ ResumeAddMonitor("t2")

SpecFetch == Init /\ [][NextFetch]_vars

\* one caller of getNews while the cache ages
NextNews ==
    \/ \E req \in NewsRequests : CallGetNews("t1", req[1], req[2])
    \/ NewsGdeltOk("t1")
    \/ \E req \in NewsRequests : \E batch \in FeedBatches(req[1]) : NewsRssOk("t1", batch)
    \/ NewsStore("t1")
    \/ Return("t1")
    \/ \E d \in {CacheTTL - 1, CacheTTL} : Elapse(d)

SpecNews == Init /\ [][NextNews]_vars

\* an analysis run of slot t is between its call and its settlement
InFlight(t) == tasks[t].kind = "analyze" /\ tasks[t].pc \notin {"idle", "done", "failed"}

\* an analysis run (first slot) and a newer one started while it is in
\* flight (second slot), over an empty registry: the first slot is called
\* only while the second is idle, the second only while the first is running
NextSupersede ==
    \/ tasks["t2"].pc = "idle" /\ CallAnalyze("t1")
    \/ InFlight("t1") /\ CallAnalyze("t2")
    \/ \E t \in Tasks : AnStageOk(t) \/ AnStageThrow(t) \/ AnFinish(t) \/ Return(t)
    \/ Tick

SpecSupersede == Init /\ [][NextSupersede]_vars

(***************************************************************************)
(* Properties                                                              *)
(***************************************************************************)
\* the registry's monitors, in order, as the objects the references point to
Registry == [i \in 1..Len(activeMonitors) |-> monitors[activeMonitors[i]]]

RegistryIds == {monitors[activeMonitors[i]].id : i \in 1..Len(activeMonitors)}

\* number of positions of sequence q that hold x
Count(q, x) == Cardinality({i \in 1..Len(q) : q[i] = x})

\* task t resumes from the await of evaluateMonitor in this step
EvalStep(t) ==
    /\ tasks[t].pc = "chk_await_eval"
    /\ \/ tasks'[t].pc \in {"chk_await_save"}
       \/ tasks'[t].pc = "chk_await_eval" /\ tasks'[t].idx > tasks[t].idx

\* the monitor loop of task t ends in this step
LoopEndStep(t) ==
    /\ tasks[t].pc \in {"chk_await_market", "chk_await_eval"}
    /\ tasks'[t].pc = "chk_await_save"

\* the monitor task t is about to apply the evaluation of
Current(t) == monitors[LoopArray(tasks[t])[tasks[t].idx]]

\* items of the batch whose lower-cased title + ' ' + description contains
\* the lower-cased query
MatchingItems(query, news) ==
    {i \in 1..Len(news) :
        includes(toLowerCase(news[i].title \o <<" ">> \o news[i].description),
                 toLowerCase(query))}

\* match ratio >= alertThreshold, as a comparison of fractions
RatioMet(mon, news) ==
    Cardinality(MatchingItems(mon.query, news)) * mon.alertThreshold.den
        >= mon.alertThreshold.num * Max(Len(news), 1)

\* C1: in checkMonitors every active monitor whose match ratio on the fetched
\* batch is >= its alertThreshold gets exactly one Alert appended to the log,
\* with monitorId = its id and acknowledged = false, and its alertCount rises
\* by exactly 1: (a) the step that applies the evaluation of such a monitor
\* appends that one alert and adds 1 to alertCount, and (b) when the loop
\* ends, every such monitor that was registered when the check was called
\* and still is has had exactly one alert raised by this check.
C1_AlertRaisedOncePerMatchingMonitor ==
    [][\A t \in Tasks :
         /\ (EvalStep(t) /\ Current(t).isActive /\ RatioMet(Current(t), tasks[t].chkNews))
              => LET m == LoopArray(tasks[t])[tasks[t].idx]
                     n == Len(alerts)
                 IN  /\ Len(alerts') = n + 1
                     /\ SubSeq(alerts', 1, n) = alerts
                     /\ alerts'[n + 1].monitorId = monitors[m].id
                     /\ alerts'[n + 1].acknowledged = FALSE
                     /\ m \in DOMAIN monitors'
                          => monitors'[m].alertCount = monitors[m].alertCount + 1
         /\ LoopEndStep(t)
              => \A m \in tasks[t].idsAtCall \cap DOMAIN monitors' :
                    (/\ m \in {activeMonitors'[i] : i \in 1..Len(activeMonitors')}
                     /\ monitors'[m].isActive
                     /\ RatioMet(monitors'[m], tasks[t].chkNews))
                       => Count(tasks'[t].raised, m) = 1
    ]_vars

\* a check has run its loop to the end and raised its one alert for a
\* monitor whose query 7 of the 10 items contain
C1_Witness ==
    \E t \in Tasks :
        /\ tasks[t].kind = "checkMonitors"
        /\ tasks[t].pc = "chk_await_save"
        /\ Len(tasks[t].chkNews) = 10
        /\ Len(tasks[t].raised) = 1
        /\ tasks[t].raised[1] \in DOMAIN monitors
        /\ Cardinality(MatchingItems(monitors[tasks[t].raised[1]].query, tasks[t].chkNews)) = 7
        /\ monitors[tasks[t].raised[1]].alertCount = 1
        /\ Len(alerts) = 1
        /\ alerts[1].monitorId = monitors[tasks[t].raised[1]].id

\* C2: an active monitor whose match ratio on the checked batch is strictly
\* below its alertThreshold (every empty batch included) gets no Alert from
\* that check and keeps its alertCount: (a) the step that applies its
\* evaluation leaves the log and the count alone, and (b) when the loop ends
\* the check has raised nothing for it.
C2_NoAlertBelowThreshold ==
    [][\A t \in Tasks :
         /\ (EvalStep(t) /\ Current(t).isActive /\ ~RatioMet(Current(t), tasks[t].chkNews))
              => LET m == LoopArray(tasks[t])[tasks[t].idx]
                 IN  /\ alerts' = alerts
                     /\ m \in DOMAIN monitors'
                          => monitors'[m].alertCount = monitors[m].alertCount
         /\ LoopEndStep(t)
              => \A m \in DOMAIN monitors' :
                    (monitors'[m].isActive /\ ~RatioMet(monitors'[m], tasks[t].chkNews))
                       => Count(tasks'[t].raised, m) = 0
    ]_vars

\* a check over a non-empty batch has evaluated a monitor that 3 of the 10
\* items match and ended without an alert
C2_Witness ==
    \E t \in Tasks :
        /\ tasks[t].kind = "checkMonitors"
        /\ tasks[t].pc = "chk_await_save"
        /\ Len(tasks[t].chkNews) = 10
        /\ tasks[t].raised = << >>
        /\ \E m \in tasks[t].idsAtCall \cap DOMAIN monitors :
              /\ Cardinality(MatchingItems(monitors[m].query, tasks[t].chkNews)) = 3
              /\ monitors[m].alertCount = 0
        /\ alerts = << >>

\* task t is called as removeMonitor(id) in this step with an id that no
\* registered monitor has
RemoveAbsentStep(t) ==
    /\ tasks[t].pc = "idle"
    /\ tasks'[t].kind = "removeMonitor"
    /\ tasks'[t].mid \notin RegistryIds

\* C3: removeMonitor with an id no registered monitor has settles at once
\* with the 'not found' string (no error), does not call saveMonitors, and
\* leaves the monitor list (members, order, every field) and the alert log
\* as they were.
C3_RemoveAbsentIsNoOp ==
    [][\A t \in Tasks :
         RemoveAbsentStep(t)
           => /\ tasks'[t].pc = "done"
              /\ tasks'[t].ret = <<"not found", tasks'[t].mid>>
              /\ tasks'[t].saveCalls = 0
              /\ Len(activeMonitors') = Len(activeMonitors)
              /\ \A i \in 1..Len(activeMonitors) :
                    /\ activeMonitors'[i] \in DOMAIN monitors'
                    /\ monitors'[activeMonitors'[i]] = monitors[activeMonitors[i]]
              /\ alerts' = alerts
    ]_vars

\* removeMonitor has answered 'not found' while a monitor is registered
C3_Witness ==
    \E t \in Tasks :
        /\ tasks[t].kind = "removeMonitor"
        /\ tasks[t].pc = "done"
        /\ tasks[t].ret = <<"not found", tasks[t].mid>>
        /\ Len(activeMonitors) >= 1

\* C10 (as claimed): monitor checks are serialized, so at most one check is
\* inside its monitor loop (between taking the array and the end of the
\* array) at any time.
C10_ChecksSerialized ==
    Cardinality({t \in Tasks : tasks[t].pc = "chk_await_eval"}) <= 1

\* C4 (as claimed): after a restart of the process and a completed
\* initialize, every monitor that was added and not removed is in the
\* registry again.
C4_MonitorsSurviveRestart ==
    (restarted /\ isInitialized) => intended \subseteq RegistryIds

\* C5: the alert log is append-only: every step of addMonitor, removeMonitor,
\* checkMonitors and analyze keeps every alert of the log at its position
\* with every field but the acknowledged flag unchanged, so removing a
\* monitor leaves its earlier alerts in place.
C5_AlertLogAppendOnly ==
    [][/\ Len(alerts') >= Len(alerts)
       /\ \A i \in 1..Len(alerts) :
             [alerts'[i] EXCEPT !.acknowledged = FALSE]
                = [alerts[i] EXCEPT !.acknowledged = FALSE]
    ]_vars

\* after an analysis run whose monitor check raised an alert, the monitor
\* has been removed and its alert is still in the log
C5_Witness ==
    /\ "latest" \in DOMAIN analysisCache
    /\ Len(alerts) >= 1
    /\ alerts[1].monitorId \notin RegistryIds
    /\ \E t \in Tasks : tasks[t].kind = "removeMonitor" /\ tasks[t].pc = "done"
                            /\ tasks[t].ret = <<"removed successfully", alerts[1].monitorId>>

Analyzers == {"patterns", "trends", "risks", "opportunities", "narratives", "mainCharacters"}

\* C6 (as claimed): an analyzer that throws inside analyze() does not abort
\* the run, so no analysis run ends in an error caused by an analyzer.
C6_AnalyzerFailureTolerated ==
    \A t \in Tasks :
        ~(tasks[t].kind = "analyze" /\ tasks[t].pc = "failed" /\ tasks[t].err \in Analyzers)

\* C7: an analyze() run that fails has, in none of its steps, changed what
\* the cache holds under 'latest' (the entry, any field of the cached
\* result) or lastAnalysisTime.
C7_FailedRunLeavesCache ==
    \A t \in Tasks :
        (tasks[t].kind = "analyze" /\ tasks[t].pc = "failed") => ~tasks[t].dirty

\* a run has failed in its monitor check, its last stage before the cache
\* write, while the cache holds the result of an earlier run
C7_Witness ==
    \E t \in Tasks :
        /\ tasks[t].kind = "analyze"
        /\ tasks[t].pc = "failed"
        /\ tasks[t].err = "checkMonitors"
        /\ "latest" \in DOMAIN analysisCache
        /\ lastAnalysisTime # Null

\* the fields of an AnalysisResult
ResultFields ==
    {"timestamp", "patterns", "trends", "risks", "opportunities", "decisions",
     "narratives", "mainCharacters", "alerts", "summary", "confidence", "metadata"}

\* task t completes a successful analysis run in this step
RunCompletes(t) ==
    /\ tasks[t].kind = "analyze"
    /\ tasks[t].pc = "an_await_check"
    /\ tasks'[t].pc = "done"

\* C8: the analysis cache never has a key other than 'latest'; a successful
\* run that completes leaves under 'latest' exactly the complete result it
\* returns, and no other step changes the cache.
C8_CacheHoldsLatestRun ==
    [][/\ DOMAIN analysisCache' \subseteq {"latest"}
       /\ \A t \in Tasks :
             RunCompletes(t)
               => /\ "latest" \in DOMAIN analysisCache'
                  /\ analysisCache'["latest"] = tasks'[t].ret[1]
                  /\ DOMAIN analysisCache'["latest"] = ResultFields
       /\ (~\E t \in Tasks : RunCompletes(t)) => analysisCache' = analysisCache
    ]_vars

\* two runs have completed with different results, and the cache holds the
\* result of the one that completed last
C8_Witness ==
    /\ "latest" \in DOMAIN analysisCache
    /\ \E t, u \in Tasks :
          /\ t # u
          /\ tasks[t].kind = "analyze" /\ tasks[t].pc = "done"
          /\ tasks[u].kind = "analyze" /\ tasks[u].pc = "done"
          /\ tasks[t].ret[1] = analysisCache["latest"]
          /\ tasks[u].ret[1] # analysisCache["latest"]

\* C9 (as claimed): an AnalysisResult is an immutable snapshot: as long as
\* the cache holds it, no step changes what its holder reads in any of its
\* fields, the content and length of its alerts list included.
C9_ResultImmutable ==
    [][\A k \in DOMAIN analysisCache :
          (k \in DOMAIN analysisCache' /\ analysisCache'[k] = analysisCache[k])
            => CacheView(analysisCache', alerts')[k] = CacheView(analysisCache, alerts)[k]
    ]_vars

\* C11 (as claimed): a run superseded by a newer run started while it was
\* in flight is discarded: when the older run (first slot) completes after
\* the newer one (second slot) has completed, it does not write the cache,
\* which keeps the newer run's result.
C11_SupersededRunDiscarded ==
    [][(/\ RunCompletes("t1")
        /\ tasks["t2"].kind = "analyze"
        /\ tasks["t2"].pc = "done")
          => analysisCache' = analysisCache
    ]_vars

\* task t is called as addMonitor(query) in this step
AddStep(t) ==
    /\ tasks[t].pc = "idle"
    /\ tasks'[t].kind = "addMonitor"

\* C12: addMonitor(query) appends exactly one new monitor with the given
\* query, isActive = true, alertCount = 0, alertThreshold 0.7 and
\* checkInterval 3600; every monitor already registered keeps its position
\* and all its fields, and the alert log is unchanged, both in the step that
\* pushes the monitor and in the step that returns after saveMonitors.
C12_AddMonitorAppendsOne ==
    [][\A t \in Tasks :
         /\ AddStep(t)
              => /\ Len(activeMonitors') = Len(activeMonitors) + 1
                 /\ \A i \in 1..Len(activeMonitors) :
                       /\ activeMonitors'[i] \in DOMAIN monitors'
                       /\ monitors'[activeMonitors'[i]] = monitors[activeMonitors[i]]
                 /\ LET m == monitors'[activeMonitors'[Len(activeMonitors')]]
                    IN  /\ m.query = tasks'[t].query
                        /\ m.id \notin RegistryIds
                        /\ m.isActive = TRUE
                        /\ m.alertCount = 0
                        /\ m.alertThreshold.num * 10 = 7 * m.alertThreshold.den
                        /\ m.checkInterval = 3600
                 /\ alerts' = alerts
         /\ (tasks[t].pc = "add_await_save" /\ tasks'[t].pc # "add_await_save")
              => /\ tasks'[t].pc = "done"
                 /\ activeMonitors' = activeMonitors
                 /\ monitors' = monitors
                 /\ alerts' = alerts
    ]_vars

\* addMonitor has returned after appending a second monitor behind the one
\* registered before
C12_Witness ==
    \E t \in Tasks :
        /\ tasks[t].kind = "addMonitor"
        /\ tasks[t].pc = "done"
        /\ Len(activeMonitors) = 2
        /\ monitors[activeMonitors[2]].id = tasks[t].mid
        /\ monitors[activeMonitors[1]].id < tasks[t].mid
        /\ monitors[activeMonitors[2]].query # monitors[activeMonitors[1]].query

\* task t is called as removeMonitor(id) in this step with the id of a
\* registered monitor
RemovePresentStep(t) ==
    /\ tasks[t].pc = "idle"
    /\ tasks'[t].kind = "removeMonitor"
    /\ tasks'[t].mid \in RegistryIds

\* C13: removeMonitor(id) with a registered id deletes it: no monitor with
\* that id remains, every monitor with another id stays with its fields
\* and in its relative order, and a check made after the removal raises no
\* alert for the removed id (every alert a check raises is for a monitor
\* that is registered when it is raised).
C13_RemoveDeletesOnlyThat ==
    [][\A t \in Tasks :
         /\ RemovePresentStep(t)
              => /\ tasks'[t].mid \notin {monitors'[activeMonitors'[i]].id :
                                              i \in 1..Len(activeMonitors')}
                 /\ [i \in 1..Len(activeMonitors') |-> monitors'[activeMonitors'[i]]]
                       = SelectSeq(Registry, LAMBDA m : m.id # tasks'[t].mid)
                 /\ Len(activeMonitors') = Len(activeMonitors) - 1
         /\ Len(alerts') > Len(alerts)
              => alerts'[Len(alerts')].monitorId \in RegistryIds
    ]_vars

\* of two registered monitors the first has been removed, and the check
\* made after that has raised its one alert, for the monitor that stayed
C13_Witness ==
    /\ tasks["t1"].kind = "checkMonitors"
    /\ tasks["t1"].pc = "done"
    /\ tasks["t1"].ret = <<"Monitor check completed.", 1>>
    /\ RegistryIds = {2}
    /\ 1 \notin intended
    /\ Len(alerts) = 1
    /\ alerts[1].monitorId = 2

\* C15: the check interval is no gate: a check raises an alert for an active
\* monitor at or above its threshold also when less than checkInterval
\* seconds have passed since its lastChecked, and when the loop of a check
\* ends every registered active monitor at or above its threshold has got
\* one alert from it; so two checks back to back raise two alerts and
\* alertCount rises by 2.
C15_IntervalIsNoGate ==
    [][\A t \in Tasks :
         /\ (/\ EvalStep(t)
             /\ Current(t).isActive
             /\ RatioMet(Current(t), tasks[t].chkNews)
             /\ now - Current(t).lastChecked < Current(t).checkInterval)
              => LET m == LoopArray(tasks[t])[tasks[t].idx]
                 IN  /\ Len(alerts') = Len(alerts) + 1
                     /\ alerts'[Len(alerts')].monitorId = monitors[m].id
                     /\ monitors'[m].alertCount = monitors[m].alertCount + 1
         /\ LoopEndStep(t)
              => \A i \in 1..Len(activeMonitors') :
                    LET m == activeMonitors'[i]
                    IN  (monitors'[m].isActive /\ RatioMet(monitors'[m], tasks[t].chkNews))
                           => Count(tasks'[t].raised, m) = 1
    ]_vars

\* two checks less than checkInterval seconds apart have each raised an
\* alert for the same monitor, whose alertCount is 2
C15_Witness ==
    /\ tasks["t1"].kind = "checkMonitors"
    /\ tasks["t1"].pc = "done"
    /\ Len(alerts) = 2
    /\ alerts[1].monitorId = alerts[2].monitorId
    /\ alerts[2].timestamp - alerts[1].timestamp < DefaultCheckInterval
    /\ \E i \in 1..Len(activeMonitors) :
          /\ Registry[i].id = alerts[1].monitorId
          /\ Registry[i].alertCount = 2

\* C16 (as claimed): every check stamps the monitor it evaluates: when the
\* check resumes from the evaluation of an active monitor, that monitor's
\* lastChecked is the time of the check, alert or no alert.
C16_CheckStampsLastChecked ==
    [][\A t \in Tasks :
         (EvalStep(t) /\ Current(t).isActive)
           => LET m == LoopArray(tasks[t])[tasks[t].idx]
              IN  m \in DOMAIN monitors' => monitors'[m].lastChecked = now
    ]_vars

\* this step turns a registered active monitor inactive and keeps it in the list
Deactivates ==
    \E i \in 1..Len(activeMonitors) :
        /\ monitors[activeMonitors[i]].isActive
        /\ \E j \in 1..Len(activeMonitors') :
              /\ monitors'[activeMonitors'[j]].id = monitors[activeMonitors[i]].id
              /\ ~monitors'[activeMonitors'[j]].isActive

\* this step turns a registered inactive monitor active again
Reactivates ==
    \E i \in 1..Len(activeMonitors) :
        /\ ~monitors[activeMonitors[i]].isActive
        /\ \E j \in 1..Len(activeMonitors') :
              /\ monitors'[activeMonitors'[j]].id = monitors[activeMonitors[i]].id
              /\ monitors'[activeMonitors'[j]].isActive

\* C14 (as claimed): every registered monitor is either active or inactive,
\* and both transitions exist: whenever the caller is free to make a call
\* and an active monitor is registered, some call deactivates a monitor
\* (isActive becomes false, the monitor stays in the list), and whenever an
\* inactive monitor is registered some call makes one active again.
C14_MonitorTogglesExist ==
    /\ \A i \in 1..Len(activeMonitors) : Registry[i].isActive \in BOOLEAN
    /\ (tasks["t1"].pc = "idle" /\ \E i \in 1..Len(activeMonitors) : Registry[i].isActive)
          => ENABLED (NextSerial /\ Deactivates)
    /\ (tasks["t1"].pc = "idle" /\ \E i \in 1..Len(activeMonitors) : ~Registry[i].isActive)
          => ENABLED (NextSerial /\ Reactivates)

\* the call of task t settles in this step
Settles(t) ==
    /\ tasks[t].pc \notin {"idle", "done", "failed"}
    /\ tasks'[t].pc \in {"done", "failed"}

\* C17 (as claimed): a failure of the store while saving is reported to the
\* caller of addMonitor, removeMonitor or checkMonitors (the call settles
\* with an error); the failed save leaves the monitor list as the call made
\* it (the added monitor in, the removed one out); a failure while loading
\* leaves the list empty and initialize completes.
C17_StoreFailureSurfaced ==
    [][\A t \in Tasks :
         /\ (tasks[t].err = "saveMonitors" /\ Settles(t)) => tasks'[t].pc = "failed"
         /\ (tasks[t].err = "" /\ tasks'[t].err = "saveMonitors")
              => /\ activeMonitors' = activeMonitors
                 /\ monitors' = monitors
                 /\ tasks[t].kind = "addMonitor" => tasks[t].mid \in RegistryIds
                 /\ tasks[t].kind = "removeMonitor" => tasks[t].mid \notin RegistryIds
         /\ (tasks[t].err = "" /\ tasks'[t].err = "loadMonitors") => activeMonitors' = << >>
         /\ (tasks[t].err = "loadMonitors" /\ Settles(t))
              => tasks'[t].pc = "done" /\ isInitialized'
    ]_vars

\* the finding lists of the seven analyzers
SevenFindingLists ==
    {"patterns", "trends", "risks", "opportunities", "correlations",
     "narratives", "mainCharacters"}

\* C18 (as claimed): every AnalysisResult analyze() returns has the finding
\* lists of all seven analyzers, the decisions, a summary and the metadata
\* counters, and the counters agree with the content: newsCount and
\* marketSymbolsCount with the batch, patternsDetected, risksIdentified and
\* opportunitiesIdentified with the lengths of the lists.
C18_ResultComplete ==
    [][\A t \in Tasks :
         RunCompletes(t)
           => LET r == tasks'[t].ret[1]
                  out == tasks[t].out
              IN  /\ SevenFindingLists \subseteq DOMAIN r
                  /\ {"decisions", "summary", "metadata"} \subseteq DOMAIN r
                  /\ r.metadata.newsCount = Len(out.news)
                  /\ r.metadata.marketSymbolsCount = Len(out.market)
                  /\ r.metadata.patternsDetected = Len(r.patterns)
                  /\ r.metadata.risksIdentified = Len(r.risks)
                  /\ r.metadata.opportunitiesIdentified = Len(r.opportunities)
    ]_vars

\* C19: the confidence of a result is an integer in 0..100, it is 0 when
\* there is no pattern, trend, risk or opportunity, and otherwise it is the
\* weighted total (pattern 0.3, trend 0.4, risk 0.2, opportunity 0.1) divided
\* by 0.4 times the number of findings, times 100, rounded to an integer:
\* it differs from that quotient by at most one half.
C19_ConfidenceInRange ==
    [][\A t \in Tasks :
         RunCompletes(t)
           => LET r == tasks'[t].ret[1]
                  n == Len(r.patterns) + Len(r.trends) + Len(r.risks) + Len(r.opportunities)
                  w == 3 * Len(r.patterns) + 4 * Len(r.trends)
                         + 2 * Len(r.risks) + Len(r.opportunities)
              IN  /\ r.confidence \in 0..100
                  /\ n = 0 => r.confidence = 0
                  /\ n > 0 => /\ 2 * n * r.confidence - 50 * w <= n
                              /\ 50 * w - 2 * n * r.confidence <= n
    ]_vars

\* a run has returned a result with one pattern and one trend, whose
\* quotient 87.5 lies on a half, and with a confidence of 87
C19_Witness ==
    /\ tasks["t1"].kind = "analyze"
    /\ tasks["t1"].pc = "done"
    /\ Len(tasks["t1"].ret[1].patterns) = 1
    /\ Len(tasks["t1"].ret[1].trends) = 1
    /\ Len(tasks["t1"].ret[1].risks) = 0
    /\ Len(tasks["t1"].ret[1].opportunities) = 0
    /\ tasks["t1"].ret[1].confidence = 87

\* the tiers of ALERT_KEYWORDS from the most to the least severe
TiersBySeverity == <<"critical", "high", "medium", "low">>

\* the most severe tier with a keyword in the text, 'none' without any
HighestTier(text) ==
    LET hit == {i \in 1..Len(TiersBySeverity) :
                   AnyIncluded(text, ALERT_KEYWORDS[TiersBySeverity[i]])}
    IN  IF hit = {} THEN "none"
        ELSE TiersBySeverity[CHOOSE i \in hit : \A j \in hit : i <= j]

\* C20 (as claimed): the alert level assigned to a news item is the most
\* severe tier (critical > high > medium > low) of ALERT_KEYWORDS with a
\* keyword in the item's text, and 'none' when no tier has one.
C20_HighestTierAssigned ==
    [][\A t \in Tasks :
         (tasks[t].pc = "rss_item" /\ tasks'[t].pc = "done")
           => tasks'[t].ret[1].alertLevel = HighestTier(ItemText(tasks[t].chkNews[1]))
    ]_vars

\* C21 (as claimed): getNews(category, limit) returns at most limit items,
\* on a fresh fetch and on a cache hit alike.
C21_AtMostLimitItems ==
    \A t \in Tasks :
        (tasks[t].kind = "getNews" /\ tasks[t].pc = "done")
          => Len(tasks[t].ret[1]) <= tasks[t].limit

\* C27 (as claimed): getNews serves a cached list for a (category, limit)
\* key only if that key's own entry was stored less than the TTL ago.
C27_StaleEntryNeverServed ==
    [][\A t \in Tasks :
         (tasks[t].pc = "idle" /\ tasks'[t].kind = "getNews" /\ tasks'[t].fromCache)
           => now - newsModule.storedAt[<<tasks'[t].category, tasks'[t].limit>>] < CacheTTL
    ]_vars

\* C23 (as claimed): annotating leaves the items it is given unchanged,
\* their keywords lists included, and each copy keeps its item's category.
C23_AnnotateLeavesInput ==
    \A t \in Tasks :
        tasks[t].pc = "news_await_process"
          => /\ tasks[t].chkNews = tasks[t].fetched
             /\ \A i \in 1..Len(tasks[t].items) :
                    tasks[t].items[i].category = tasks[t].fetched[i].category

\* the run of slot t calls the stage in this step
Invokes(t, stage) ==
    /\ tasks'[t].pc = "an_await_stage"
    /\ AnalyzeStages[tasks'[t].stage] = stage
    /\ tasks[t].pc = "idle" \/ tasks[t].stage # tasks'[t].stage

\* the four analyzer outputs held by a run are those of the analyzers on
\* the news and market data the run fetched
AnalyzersDone(out) ==
    /\ out.patterns = analyzePatterns(out.news, out.market)
    /\ out.trends = analyzeTrends(out.news, out.market)
    /\ out.risks = assessRisks(out.news, out.market)
    /\ out.opportunities = identifyOpportunities(out.news, out.market)

\* C22: each analyze run follows the pipeline order.  The first call of a
\* run is the news fetch.  When the decision engine is invoked the four
\* analyzers have completed on the fetched data.  The 'latest' entry is
\* written only by a run whose monitor check has returned, and the result
\* written holds the decisions made from the four analyzer outputs and the
\* narratives and main characters extracted from the fetched data.
C22_PipelineOrder ==
    [][/\ \A t \in Tasks :
            /\ (tasks[t].pc = "idle" /\ tasks'[t].kind = "analyze")
                  => Invokes(t, "news")
            /\ Invokes(t, "decisions") => AnalyzersDone(tasks'[t].out)
       /\ analysisCache' # analysisCache
            => \E t \in Tasks :
                  /\ tasks[t].kind = "analyze" /\ tasks[t].pc = "an_await_check"
                  /\ tasks'[t].pc = "done"
                  /\ AnalyzersDone(tasks[t].out)
                  /\ LET r == analysisCache'["latest"]
                     IN  /\ r.decisions = generateRecommendations(r.patterns, r.trends,
                                                                  r.risks, r.opportunities)
                         /\ r.patterns = tasks[t].out.patterns
                         /\ r.narratives = extractNarratives(tasks[t].out.news,
                                                             tasks[t].out.market)
                         /\ r.mainCharacters = identifyMainCharacters(tasks[t].out.news,
                                                                      tasks[t].out.market)
    ]_vars

\* a run over ten news items and a quote has finished after its own monitor
\* check raised an alert, and the cache holds its decisions
C22_Witness ==
    /\ tasks["t1"].kind = "analyze" /\ tasks["t1"].pc = "done"
    /\ Len(alerts) >= 1
    /\ "latest" \in DOMAIN analysisCache
    /\ analysisCache["latest"].metadata.newsCount = 10
    /\ Len(analysisCache["latest"].decisions) >= 2

\* C24 (as claimed): every alert refers to a monitor that is in the
\* registry at the moment the alert is appended to the log.
C24_AlertRefersToRegistered ==
    [][Len(alerts') > Len(alerts)
         => alerts'[Len(alerts')].monitorId \in RegistryIds
    ]_vars

\* C25: for each monitor in the registry, its alertCount is the number of
\* alerts in the log that carry its id.
C25_AlertCountMatchesLog ==
    \A i \in 1..Len(Registry) :
        Registry[i].alertCount =
            Cardinality({k \in 1..Len(alerts) : alerts[k].monitorId = Registry[i].id})

\* a registered monitor has had an alert raised, which is in the log,
\* next to a cached analysis result
C25_Witness ==
    /\ "latest" \in DOMAIN analysisCache
    /\ \E i \in 1..Len(Registry) :
          /\ Registry[i].alertCount = 1
          /\ Len(alerts) = 1
          /\ alerts[1].monitorId = Registry[i].id

\* C26 (as claimed): a monitor added with addMonitor stays in the registry
\* until removeMonitor is called with its id, whatever the order of the
\* addMonitor and initialize calls.
C26_MonitorStaysUntilRemoved == intended \subseteq RegistryIds

\* C28 (as claimed), for the calls made once SituationMonitorSkill.initialize
\* has completed: whenever analyze or checkMonitors calls getNews or
\* getMarketOverview, the NewsModule / MarketsModule instance it calls has
\* completed its own initialize().
C28_FetchFromInitializedModules ==
    [][\A t \in Tasks :
         skill.isInitialized
           => /\ (Invokes(t, "news") \/ (tasks[t].pc # "chk_await_news"
                                         /\ tasks'[t].pc = "chk_await_news"))
                    => ready["analysis.newsModule"]
              /\ (Invokes(t, "market") \/ (tasks[t].pc = "chk_await_news"
                                           /\ tasks'[t].pc = "chk_await_market"))
                    => ready["analysis.marketsModule"]
    ]_vars

\* C29: SituationMonitorSkill.initialize sets isInitialized only after the
\* configuration load, the three module initializations and the command
\* registration; a call that fails rethrows and leaves isInitialized as it
\* is; a call made while isInitialized is false starts from the
\* configuration load; a call made once isInitialized is true returns at
\* once and changes nothing; isInitialized is never reset.
C29_SkillInitialize ==
    [][/\ (skill'.isInitialized /\ ~skill.isInitialized)
            => /\ skill'.configLoaded
               /\ ready'["skill.newsModule"] /\ ready'["skill.marketsModule"]
               /\ isInitialized'
               /\ \A c \in RegisteredNames : toLowerCase(c) \in skill'.commands
       /\ skill.isInitialized => skill'.isInitialized
       /\ \A t \in Tasks :
            /\ (tasks[t].kind = "skill.initialize" /\ tasks[t].pc # "failed"
                /\ tasks'[t].pc = "failed")
                  => tasks'[t].err # "" /\ skill' = skill
            /\ (tasks[t].pc = "idle" /\ tasks'[t].kind = "skill.initialize")
                  => IF skill.isInitialized
                     THEN /\ tasks'[t].pc = "done"
                          /\ skill' = skill /\ ready' = ready
                          /\ isInitialized' = isInitialized
                     ELSE tasks'[t].pc = "sk_await_config"
    ]_vars

\* the skill is initialized by a call that succeeded next to one that
\* failed, with the commands registered once
C29_Witness ==
    /\ skill.isInitialized
    /\ skill.registrations = 1
    /\ skill.commands = {toLowerCase(c) : c \in RegisteredNames}
    /\ \E t, u \in Tasks :
          /\ tasks[t].kind = "skill.initialize" /\ tasks[t].pc = "done"
          /\ tasks[u].kind = "skill.initialize" /\ tasks[u].pc = "failed"

\* C30: handleCommand never throws; a command that is neither a registered
\* command nor an alias, compared in lower case, yields the help text at
\* once, without a handler being awaited; an error thrown by the handler
\* is returned as a string that starts with 'Error: '.
C30_HandleCommandNeverThrows ==
    [][\A t \in Tasks :
         /\ tasks'[t].kind = "handleCommand" => tasks'[t].pc # "failed"
         /\ (/\ tasks[t].pc = "idle" /\ tasks'[t].kind = "handleCommand"
             /\ toLowerCase(tasks'[t].query) \notin
                    (skill.commands \cup DOMAIN skill.aliases))
               => tasks'[t].pc = "done" /\ tasks'[t].ret = <<HelpText>>
         /\ (/\ tasks[t].pc = "cmd_await_handler"
             /\ tasks'[t].pc # "cmd_await_handler"
             /\ tasks'[t].err # "")
               => tasks'[t].pc = "done" /\ tasks'[t].ret[1] = "Error: "
    ]_vars

\* on the initialized skill, a handler's error has come back as a string
\* and an unknown command has got the help text
C30_Witness ==
    /\ skill.isInitialized
    /\ \E t, u \in Tasks :
          /\ tasks[t].kind = "handleCommand" /\ tasks[t].pc = "done"
          /\ tasks[t].query = <<"n", "E", "W", "s">>
          /\ tasks[t].err = "fetch failed"
          /\ tasks[t].ret = <<"Error: ", "fetch failed">>
          /\ tasks[u].kind = "handleCommand" /\ tasks[u].pc = "done"
          /\ tasks[u].query = <<"h", "e", "l", "p">>
          /\ tasks[u].ret = <<HelpText>>

====
